---- MODULE Spec2Model ----
(***************************************************************************)
(* A model of gohttp's request-building and execution pipeline: the Client *)
(* builder, prepareRequest (resolution), the retry loop of Client.Do and   *)
(* the values they hand to net/http.                                       *)
(*                                                                         *)
(* Text that the code inspects character by character (URL paths) is a     *)
(* sequence of one-character strings; text the code only stores, compares  *)
(* with "" or uses as a map key is a TLA+ string.                          *)
(***************************************************************************)
EXTENDS Integers, Sequences, FiniteSets, TLC

VARIABLES
    cl,     \* the Client structs: client id -> fields of the struct
    pc,     \* position of the terminal call in flight: idle, sending, done, hung, panic
    call,   \* locals of Client.Do: c, method, url, req, tried, resp, err
    ret,    \* what Client.Do returned: resp and err
    log,    \* history: the outcome of every c.c.Do(req) of the call in flight
    ops,    \* history: the configuration calls made on the builder, in order
    heap,   \* the objects the clients point to, and may share: streams, arrays
    th      \* goroutines calling the shortcuts at once, and the words of
            \* DefaultClient.url they write and read without synchronization

vars == <<cl, pc, call, ret, log, ops, heap, th>>

Nil == "nil"

\* ------------------------------------------------------------- bounds

MaxSegLen == 2
MaxPathCalls == 2
MaxRetries == 3
MaxBase == 3
MaxOps == 3

\* ------------------------------------------------------- program constants

DefaultTimeout == 3

contentType == "Content-Type"
jsonContentType == "application/json"
formContentType == "application/x-www-form-urlencoded"
multipartContentType == "multipart/form-data; boundary=..."

\* ------------------------------------------------------------- text

Slash == "/"
Dot == "."
DotDot == <<Dot, Dot>>

\* strings.Join(elems, "/")
RECURSIVE JoinSlash(_)
JoinSlash(elems) ==
    IF elems = <<>> THEN <<>>
    ELSE IF Len(elems) = 1 THEN Head(elems)
    ELSE Head(elems) \o <<Slash>> \o JoinSlash(Tail(elems))

\* The pieces of s between its separators, empty pieces included.
RECURSIVE SplitSlash(_)
SplitSlash(s) ==
    IF \A i \in 1..Len(s) : s[i] # Slash THEN <<s>>
    ELSE LET i == CHOOSE j \in 1..Len(s) :
                      s[j] = Slash /\ \A k \in 1..(j - 1) : s[k] # Slash
         IN <<SubSeq(s, 1, i - 1)>> \o SplitSlash(SubSeq(s, i + 1, Len(s)))

HasPrefixSlash(s) == Len(s) > 0 /\ s[1] = Slash

\* One element of the path being cleaned, applied to the elements kept so far.
CleanStep(out, elem, rooted) ==
    IF elem = <<>> \/ elem = <<Dot>> THEN out
    ELSE IF elem = DotDot
         THEN IF Len(out) > 0 /\ out[Len(out)] # DotDot
                  THEN SubSeq(out, 1, Len(out) - 1)
              ELSE IF rooted THEN out
              ELSE Append(out, elem)
    ELSE Append(out, elem)

RECURSIVE CleanFold(_, _, _)
CleanFold(out, elems, rooted) ==
    IF elems = <<>> THEN out
    ELSE CleanFold(CleanStep(out, Head(elems), rooted), Tail(elems), rooted)

\* path/filepath.Clean with the separator '/'
Clean(s) ==
    IF s = <<>> THEN <<Dot>>
    ELSE LET rooted == HasPrefixSlash(s)
             out == JoinSlash(CleanFold(<<>>, SplitSlash(s), rooted))
         IN IF rooted THEN <<Slash>> \o out
            ELSE IF out = <<>> THEN <<Dot>>
            ELSE out

\* path/filepath.Join(a, b): Clean of the elements from the first non-empty one on.
FilepathJoin(a, b) ==
    IF a # <<>> THEN Clean(a \o <<Slash>> \o b)
    ELSE IF b # <<>> THEN Clean(b)
    ELSE <<>>

\* ------------------------------------------------------------- URLs

\* The URL texts a caller passes; "" is the empty string.
UrlRoot == "http://h"
UrlDir == "http://h/x/"
UrlQuery == "http://h/x?k1=v0"
UrlBad == ":bad"
URLs == {"", UrlRoot, UrlDir, UrlQuery, UrlBad}

\* net/url.Parse as http.NewRequest calls it, on the texts above: whether it
\* parses, and the Path and RawQuery of the parsed URL.
UrlParse(u) ==
    IF u = UrlBad THEN [ok |-> FALSE, path |-> <<>>, rawQuery |-> <<>>]
    ELSE IF u = UrlDir
        THEN [ok |-> TRUE, path |-> <<Slash, "x", Slash>>, rawQuery |-> <<>>]
    ELSE IF u = UrlQuery
        THEN [ok |-> TRUE, path |-> <<Slash, "x">>, rawQuery |-> <<<<"k1", "v0">>>>]
    ELSE [ok |-> TRUE, path |-> <<>>, rawQuery |-> <<>>]

\* The method tokens http.NewRequest accepts.
ValidMethod(m) == m \in {"GET", "HEAD", "POST", "PUT", "PATCH", "DELETE", "OPTIONS"}

\* ------------------------------------------------------- query strings

\* Query keys in the order url.Values.Encode sorts them.
KeyOrder == <<"k1", "k2">>
Keys == {KeyOrder[i] : i \in 1..Len(KeyOrder)}

EmptyMap == [k \in {} |-> Nil]

MapSet(m, k, v) == [x \in DOMAIN m \cup {k} |-> IF x = k THEN v ELSE m[x]]

\* ValuesAdd replacing the values the key has, as url.Values.Set does.
ValuesAdd_Set(q, k, v) == [x \in DOMAIN q \cup {k} |-> IF x = k THEN <<v>> ELSE q[x]]

\* url.Values.Add
ValuesAdd(q, k, v) ==
    [x \in DOMAIN q \cup {k} |->
        IF x = k THEN (IF k \in DOMAIN q THEN Append(q[k], v) ELSE <<v>>) ELSE q[x]]

\* URL.Query(): the raw query parsed into url.Values, pair by pair.
RECURSIVE ParseQueryFrom(_, _)
ParseQueryFrom(q, raw) ==
    IF raw = <<>> THEN q
    ELSE ParseQueryFrom(ValuesAdd(q, Head(raw)[1], Head(raw)[2]), Tail(raw))

ParseQuery(raw) == ParseQueryFrom(EmptyMap, raw)

RECURSIVE PairsOf(_, _)
PairsOf(k, vs) == IF vs = <<>> THEN <<>> ELSE <<<<k, Head(vs)>>>> \o PairsOf(k, Tail(vs))

\* url.Values.Encode: the keys sorted, each key's values in the order added.
RECURSIVE EncodeFrom(_, _)
EncodeFrom(q, i) ==
    IF i > Len(KeyOrder) THEN <<>>
    ELSE (IF KeyOrder[i] \in DOMAIN q THEN PairsOf(KeyOrder[i], q[KeyOrder[i]]) ELSE <<>>)
         \o EncodeFrom(q, i + 1)

Encode(q) == EncodeFrom(q, 1)

\* for key, value := range c.query { q.Add(key, value) }: c.query holds each key
\* once, so the order of the iteration does not show in q.
RECURSIVE AddSimple(_, _, _)
AddSimple(q, m, i) ==
    IF i > Len(KeyOrder) THEN q
    ELSE AddSimple(IF KeyOrder[i] \in DOMAIN m
                       THEN ValuesAdd(q, KeyOrder[i], m[KeyOrder[i]]) ELSE q,
                   m, i + 1)

\* The structured values a caller passes to QueryStruct and what
\* go-querystring's query.Values makes of each (QsBad is not a struct: an error).
QsOne == "qs1"
QsTwo == "qs2"
QsBad == "qsbad"
QueryStructValues == {QsOne, QsTwo, QsBad}

\* QueryValues taking what is not a struct for a struct without fields.
QueryValues_Lenient(s) ==
    IF s = QsOne THEN [ok |-> TRUE, pairs |-> <<<<"k1", "s1">>>>]
    ELSE IF s = QsTwo THEN [ok |-> TRUE, pairs |-> <<<<"k1", "s2">>, <<"k2", "s2">>>>]
    ELSE [ok |-> TRUE, pairs |-> <<>>]

QueryValues(s) ==
    IF s = QsOne THEN [ok |-> TRUE, pairs |-> <<<<"k1", "s1">>>>]
    ELSE IF s = QsTwo THEN [ok |-> TRUE, pairs |-> <<<<"k1", "s2">>, <<"k2", "s2">>>>]
    ELSE [ok |-> FALSE, pairs |-> <<>>]

RECURSIVE AddPairs(_, _)
AddPairs(q, pairs) ==
    IF pairs = <<>> THEN q
    ELSE AddPairs(ValuesAdd(q, Head(pairs)[1], Head(pairs)[2]), Tail(pairs))

\* The loop over c.queryStructs: the values added, or the first encoding error.
RECURSIVE AddStructs(_, _)
AddStructs(q, structs) ==
    IF structs = <<>> THEN [ok |-> TRUE, q |-> q]
    ELSE LET v == QueryValues(Head(structs))
         IN IF ~v.ok THEN [ok |-> FALSE, q |-> q]
            ELSE AddStructs(AddPairs(q, v.pairs), Tail(structs))

\* ------------------------------------------------------------- bodies

\* A body reader: what kind of content it yields (raw: a caller's reader; json,
\* form: text this package encoded; multipart: the framed files), the text or
\* payload it was made from, and for multipart the parts. NoBody is the nil reader.
NoBody == [kind |-> "nil", data |-> "", parts |-> <<>>]
TextBody(kind, data) == [kind |-> kind, data |-> data, parts |-> <<>>]

\* The values a caller passes to JSONStruct and Form; Unencodable is one that
\* json.Encoder, and query.Values, reject.
Unencodable == "bad"
Payloads == {"v1", Unencodable}

\* jsonBodyData.Body: the reader over the encoded payload, or nil on error.
JsonBody(v) == IF v = Unencodable THEN NoBody ELSE TextBody("json", v)

\* formBodyData.Body: the reader over the encoded pairs, or nil on error.
FormBody(v) == IF v = Unencodable THEN NoBody ELSE TextBody("form", v)

\* The files a caller passes to File; io.Copy from UnreadableFile fails.
UnreadableFile == "fbad"
FileReadable(f) == f # UnreadableFile

\* ------------------------------------------------------------- the Client

Clients == {"c"}

\* basicAuth{}: no credentials.
NoAuth == [username |-> "", password |-> ""]

\* New(): the defaults of a fresh client; debug is what GOHTTP_DEBUG says.
NewClient(debug) ==
    [ url |-> "", path |-> <<>>, query |-> EmptyMap, queryStructs |-> <<>>,
      headers |-> EmptyMap, body |-> NoBody,
      auth |-> NoAuth,
      cookies |-> <<>>, files |-> <<>>, proxy |-> "",
      timeout |-> DefaultTimeout, tlsHandshakeTimeout |-> 0,
      retries |-> 0, debug |-> debug,
      hc |-> [made |-> FALSE, Timeout |-> 0] ]

\* WithURL storing the empty text too.
WithURL_Always(k, u) == [k EXCEPT !.url = u]

\* Client.URL
WithURL(k, u) == IF u # "" THEN [k EXCEPT !.url = u] ELSE k

\* WithPath joining the new path in front of the old one.
WithPath_Prepend(k, seg) ==
    IF seg # <<>> THEN [k EXCEPT !.path = FilepathJoin(seg, k.path)] ELSE k

\* Client.Path with one path: the loop body of its variadic form.
WithPath(k, seg) ==
    IF seg # <<>> THEN [k EXCEPT !.path = FilepathJoin(k.path, seg)] ELSE k

\* WithQuery keeping the value a key already has.
WithQuery_KeepFirst(k, key, value) ==
    IF key \in DOMAIN k.query THEN k ELSE [k EXCEPT !.query = MapSet(k.query, key, value)]

\* Client.Query
WithQuery(k, key, value) == [k EXCEPT !.query = MapSet(k.query, key, value)]

\* Client.QueryStruct
WithQueryStruct(k, s) == [k EXCEPT !.queryStructs = Append(k.queryStructs, s)]

\* Client.Header
WithHeader(k, key, value) == [k EXCEPT !.headers = MapSet(k.headers, key, value)]

\* WithJSON without its test for the empty text.
WithJSON_Unguarded(k, bodyJSON) ==
    [WithHeader(k, contentType, jsonContentType) EXCEPT !.body = TextBody("json", bodyJSON)]

\* Client.JSON
WithJSON(k, bodyJSON) ==
    IF bodyJSON # ""
        THEN [WithHeader(k, contentType, jsonContentType)
                 EXCEPT !.body = TextBody("json", bodyJSON)]
    ELSE k

\* Client.JSONStruct: the encoding error is dropped and the body set to what
\* jsonBodyData.Body returned.
WithJSONStruct(k, v) ==
    IF v # Nil
        THEN [WithHeader(k, contentType, jsonContentType) EXCEPT !.body = JsonBody(v)]
    ELSE k

\* Client.Form
WithForm(k, v) ==
    IF v # Nil
        THEN [WithHeader(k, contentType, formContentType) EXCEPT !.body = FormBody(v)]
    ELSE k

\* Client.Body
WithBody(k, r) == IF r # Nil THEN [k EXCEPT !.body = TextBody("raw", r)] ELSE k

\* WithFile keeping only the file of the last call.
WithFile_Replace(k, f, fileName, fieldName) ==
    [k EXCEPT !.files = <<[fieldName |-> fieldName, filename |-> fileName, file |-> f]>>]

\* Client.File
WithFile(k, f, fileName, fieldName) ==
    [k EXCEPT !.files =
        Append(k.files, [fieldName |-> fieldName, filename |-> fileName, file |-> f])]

\* Client.Cookie
WithCookie(k, cookie) ==
    IF cookie # Nil THEN [k EXCEPT !.cookies = Append(k.cookies, cookie)] ELSE k

\* WithBasicAuth keeping the credentials it has when given an empty one.
WithBasicAuth_KeepValid(k, username, password) ==
    IF username # "" /\ password # ""
        THEN [k EXCEPT !.auth = [username |-> username, password |-> password]]
    ELSE k

\* Client.BasicAuth
WithBasicAuth(k, username, password) ==
    [k EXCEPT !.auth = [username |-> username, password |-> password]]

\* Client.Proxy
WithProxy(k, proxy) == IF proxy # "" THEN [k EXCEPT !.proxy = proxy] ELSE k

\* Client.TLSHandshakeTimeout
WithTLSHandshakeTimeout(k, t) == [k EXCEPT !.tlsHandshakeTimeout = t]

\* Client.Timeout
WithTimeout(k, t) == [k EXCEPT !.timeout = t]

\* Client.Retries
WithRetries(k, n) == [k EXCEPT !.retries = n]

\* Client.Debug
WithDebug(k, d) == [k EXCEPT !.debug = d]

\* ------------------------------------------------------------- resolution

\* The proxy texts a caller passes; url.Parse rejects ProxyBad.
ProxyBad == ":badproxy"
ProxyParses(p) == p # ProxyBad

\* SetupTimeout with the limit never installed on the http.Client.
SetupTimeout_Unset(timeout) == 0

\* setupClient, the request timeout limit: the Timeout of the http.Client it
\* creates, zero (no limit) unless c.timeout is set.
SetupTimeout(timeout) == IF timeout # 0 THEN timeout ELSE 0

\* setupClient: the proxy URL is parsed, the http.Client created.
SetupClient(k) ==
    IF k.proxy # "" /\ ~ProxyParses(k.proxy) THEN [ok |-> FALSE, k |-> k]
    ELSE [ok |-> TRUE, k |-> [k EXCEPT !.hc = [made |-> TRUE, Timeout |-> SetupTimeout(k.timeout)]]]

\* The parts multipart.Writer frames, one per file, in the order of c.files.
RECURSIVE MultipartParts(_)
MultipartParts(files) ==
    IF files = <<>> THEN <<>>
    ELSE <<[fieldName |-> Head(files).fieldName, filename |-> Head(files).filename,
            file |-> Head(files).file]>> \o MultipartParts(Tail(files))

\* PrepareFiles leaving alone a body that a setter has already put in place.
PrepareFiles_KeepBody(k) ==
    IF Len(k.files) > 0 /\ k.body = NoBody
        THEN [ok |-> TRUE,
              k |-> [WithHeader(k, contentType, multipartContentType)
                        EXCEPT !.body = [kind |-> "multipart", data |-> "",
                                         parts |-> MultipartParts(k.files)]]]
    ELSE [ok |-> TRUE, k |-> k]

\* prepareFiles: with files, the body and the Content-Type header of the client
\* are overwritten by the multipart encoding; a file that cannot be read ends it
\* with an error before either is touched.
PrepareFiles(k) ==
    IF Len(k.files) > 0
        THEN IF \E i \in 1..Len(k.files) : ~FileReadable(k.files[i].file)
                 THEN [ok |-> FALSE, k |-> k]
             ELSE [ok |-> TRUE,
                   k |-> [WithHeader(k, contentType, multipartContentType)
                             EXCEPT !.body = [kind |-> "multipart", data |-> "",
                                              parts |-> MultipartParts(k.files)]]]
    ELSE [ok |-> TRUE, k |-> k]

\* prepareRequest, "Adds prefix / if necessary": the client's own path is rewritten.
PrefixPath(k) ==
    IF k.path # <<>> /\ ~HasPrefixSlash(k.path)
        THEN [k EXCEPT !.path = <<Slash>> \o k.path]
    ELSE k

\* req.URL.Path after "concatenate path to url if exists".
RequestPath(p, path) == IF path # <<>> THEN FilepathJoin(p, path) ELSE p

\* req.URL.RawQuery after the simple query map is merged.
SimpleQuery(raw, query) ==
    IF DOMAIN query # {} THEN Encode(AddSimple(ParseQuery(raw), query, 1)) ELSE raw

\* The steps of prepareRequest that dereference req: with req nil (NewRequest
\* failed) the first of them that runs panics.
UsesRequest(k) ==
    \/ k.path # <<>>
    \/ DOMAIN k.query # {}
    \/ Len(k.queryStructs) # 0
    \/ DOMAIN k.headers # {}
    \/ Len(k.cookies) # 0
    \/ (k.auth.username # "" /\ k.auth.password # "")

NoReq == [made |-> FALSE]

\* prepareRequest: status "ok" with the request, "err" with the error returned,
\* or "panic"; k is the client as the call leaves it.
PrepareRequest(k0, method) ==
    LET s == SetupClient(k0) IN
    IF ~s.ok THEN [status |-> "err", err |-> "proxy", req |-> NoReq, k |-> s.k]
    ELSE
    LET f == PrepareFiles(s.k) IN
    IF ~f.ok THEN [status |-> "err", err |-> "file", req |-> NoReq, k |-> f.k]
    ELSE
    LET k == PrefixPath(f.k)
        u == UrlParse(k.url)
        made == ValidMethod(method) /\ u.ok
    IN
    IF ~made
        THEN IF UsesRequest(k)
                 THEN [status |-> "panic", err |-> Nil, req |-> NoReq, k |-> k]
             ELSE [status |-> "err", err |-> "newrequest", req |-> NoReq, k |-> k]
    ELSE
    LET raw1 == SimpleQuery(u.rawQuery, k.query)
        st == IF Len(k.queryStructs) # 0
                  THEN AddStructs(ParseQuery(raw1), k.queryStructs)
              ELSE [ok |-> TRUE, q |-> EmptyMap]
    IN
    IF ~st.ok THEN [status |-> "err", err |-> "querystruct", req |-> NoReq, k |-> k]
    ELSE [status |-> "ok", err |-> Nil, k |-> k,
          req |-> [made |-> TRUE, method |-> method, url |-> k.url,
                   path |-> RequestPath(u.path, k.path),
                   rawQuery |-> IF Len(k.queryStructs) # 0 THEN Encode(st.q) ELSE raw1,
                   headers |-> k.headers,
                   cookies |-> k.cookies,
                   auth |-> IF k.auth.username # "" /\ k.auth.password # ""
                                THEN k.auth ELSE NoAuth,
                   body |-> k.body]]

\* ------------------------------------------------------------- the exchange

\* What the server does with one attempt: it answers after `delay` with an HTTP
\* status, or the exchange breaks after `delay` with a transport error, or
\* (answers FALSE) nothing ever comes back.
Statuses == {200, 404}
TransportErrors == {"refused", "reset"}
NoAnswer == [answers |-> FALSE, delay |-> 0, status |-> 0, err |-> Nil]
ServerBehaviours ==
    [answers : {TRUE}, delay : {0, DefaultTimeout}, status : Statuses, err : {Nil}]
    \cup [answers : {TRUE}, delay : {0, DefaultTimeout}, status : {0}, err : TransportErrors]
    \cup {NoAnswer}

NoResp == [status |-> 0]
ErrResult(e) == [resp |-> NoResp, err |-> e, hang |-> FALSE]
Hang == [resp |-> NoResp, err |-> Nil, hang |-> TRUE]

ServerResult(srv) ==
    IF srv.err = Nil
        THEN [resp |-> [status |-> srv.status], err |-> Nil, hang |-> FALSE]
    ELSE ErrResult(srv.err)

\* c.c.Do(req) of net/http: a request without a scheme is refused before any
\* network I/O; with client.Timeout set the exchange ends with a deadline error
\* once the limit passes, and an answer due exactly at the limit may win or lose
\* the race; without a limit an exchange that is never answered does not return.
ClientDo(hc, req, srv) ==
    IF req.url = "" THEN {ErrResult("unsupported protocol scheme")}
    ELSE IF hc.Timeout # 0 /\ (~srv.answers \/ srv.delay > hc.Timeout)
        THEN {ErrResult("deadline exceeded")}
    ELSE IF ~srv.answers THEN {Hang}
    ELSE IF hc.Timeout # 0 /\ srv.delay = hc.Timeout
        THEN {ErrResult("deadline exceeded"), ServerResult(srv)}
    ELSE {ServerResult(srv)}

\* httputil.DumpRequestOut(req, true): it fails when the request cannot be
\* written out (no scheme), and can fail while reading a caller's body reader.
DumpRequestOutcomes(req) ==
    IF req.url = "" THEN {FALSE}
    ELSE IF req.body.kind = "raw" THEN {TRUE, FALSE}
    ELSE {TRUE}

\* LoopBreak counting one attempt too many.
LoopBreak_OffByOne(retries, tried, out) ==
    retries <= 1 \/ tried > retries \/ out.err = Nil

\* LoopBreak taking a retry count of 1 for a request to retry.
LoopBreak_RetryAtOne(retries, tried, out) ==
    retries < 1 \/ tried > retries \/ out.err = Nil

\* LoopBreak going on after an attempt that succeeded.
LoopBreak_IgnoreSuccess(retries, tried, out) == retries <= 1 \/ tried >= retries

\* LoopBreak taking an HTTP error status for a failed attempt.
LoopBreak_RetryOnStatus(retries, tried, out) ==
    retries <= 1 \/ tried >= retries \/ (out.err = Nil /\ out.resp.status < 400)

\* LoopBreak with a loop that always allows a second attempt.
LoopBreak_SecondChance(retries, tried, out) ==
    (retries <= 1 /\ tried >= 2) \/ (retries > 1 /\ tried >= retries) \/ out.err = Nil

\* The break condition of the retry loop in Client.Do, after tried++.
LoopBreak(retries, tried, out) == retries <= 1 \/ tried >= retries \/ out.err = Nil

\* AttemptErr keeping the first error seen.
AttemptErr_KeepFirst(prev, out) == IF prev # Nil THEN prev ELSE out.err

\* err after "resp, err = c.c.Do(req)": each attempt overwrites it.
AttemptErr(prev, out) == out.err

\* ------------------------------------------------------------- the heap

\* The readers a caller passes to Body, and the address of each: a reader is
\* one object however often it is passed.
Readers == <<"r1", "r2">>
ReaderAt(r) == CHOOSE i \in 1..Len(Readers) : Readers[i] = r
FirstFresh == Len(Readers) + 1

\* A slice header's array and capacity; NoSlice is that of make([]T, 0).
NoSlice == [arr |-> 0, cap |-> 0]

\* The fields of Client that are slices.
SliceFields == {"queryStructs", "cookies", "files"}

\* The heap of a process with the one client c fresh from New(): bodyAt is the
\* stream each c.body points to (0: nil), drained the streams with nothing left
\* to read, slices the array and capacity of each c.queryStructs, c.cookies and
\* c.files, queryAt and headersAt the maps each c.query and c.headers points to,
\* transportAt the http.Transport each c.transport points to and transports
\* the fields of each, req the body of the request in flight, resp the body of
\* the response.
NewHeap(c) ==
    [ bodyAt |-> (c :> 0),
      drained |-> {},
      slices |-> (c :> [queryStructs |-> NoSlice, cookies |-> NoSlice, files |-> NoSlice]),
      queryAt |-> (c :> 1),
      headersAt |-> (c :> 2),
      req |-> [at |-> 0, copy |-> "none"],
      resp |-> [left |-> "", mem |-> TRUE, broken |-> FALSE],
      transportAt |-> (c :> 1),
      transports |-> (1 :> [Proxy |-> "", TLSHandshakeTimeout |-> 0]) ]

\* req.Body: the stream it reads (0: none), and the copy of the bytes that
\* DumpRequestOut leaves in its place ("none", "full", "used").
NoReqBody == [at |-> 0, copy |-> "none"]

Min(S) == CHOOSE n \in S : \A m \in S : n <= m

\* The streams something points to.
Streams(h) == {h.bodyAt[c] : c \in DOMAIN h.bodyAt} \cup {h.req.at}

\* The address of a newly allocated stream: one that nothing points to.
FreshStream(h) ==
    LET used == Streams(h) \cup h.drained
    IN Min((FirstFresh..(FirstFresh + Cardinality(used))) \ used)

\* The address of a newly allocated map.
FreshMap(h) ==
    LET used == {h.queryAt[c] : c \in DOMAIN h.queryAt}
                    \cup {h.headersAt[c] : c \in DOMAIN h.headersAt}
    IN Min((1..(1 + Cardinality(used))) \ used)

\* The heap without the streams that nothing points to any more; the caller
\* keeps its own readers.
Collect(h) ==
    [h EXCEPT !.drained = {a \in @ : a < FirstFresh \/ a \in Streams(h)}]

\* The address of a newly allocated array.
FreshArray(h) ==
    LET used == {h.slices[c][f].arr : c \in DOMAIN h.slices, f \in SliceFields}
    IN Min((1..(1 + Cardinality(used))) \ used)

\* c.body = a new buffer.
AllocBody(h, c) ==
    LET at == FreshStream(h)
    IN [h EXCEPT !.bodyAt[c] = at]

\* What a configuration call does to the pointer c.body: Body stores the
\* caller's reader, JSON a new buffer, JSONStruct and Form what their encoder
\* returned, a new reader or nil.
SetBodyAt(h, c, op, arg) ==
    IF op = "Body" /\ arg # Nil THEN [h EXCEPT !.bodyAt[c] = ReaderAt(arg)]
    ELSE IF op = "JSON" /\ arg # "" THEN AllocBody(h, c)
    ELSE IF op \in {"JSONStruct", "Form"} /\ arg # Nil
        THEN IF arg = Unencodable THEN [h EXCEPT !.bodyAt[c] = 0] ELSE AllocBody(h, c)
    ELSE h

\* The capacity append gives the array it allocates when a slice is full.
GrowCap(cap) == IF cap = 0 THEN 1 ELSE 2 * cap

\* The heap after append on the slice field of c, which holds n elements: a
\* full slice gets a new array of its own.
GrowSlice(h, c, field, n) ==
    IF n < h.slices[c][field].cap THEN h
    ELSE [h EXCEPT !.slices[c][field] =
                     [arr |-> FreshArray(h), cap |-> GrowCap(h.slices[c][field].cap)]]

\* The http.Transport the client c sends through.
TransportOf(h, c) == h.transports[h.transportAt[c]]

\* The heap after a setupClient that succeeded, on the client c whose struct
\* is k: a proxy and a TLS handshake timeout that are set are written into the
\* transport c points to; unset ones leave the transport as it is.
SetupTransport(h, c, k) ==
    LET at == h.transportAt[c]
        h1 == IF k.proxy # "" THEN [h EXCEPT !.transports[at].Proxy = k.proxy] ELSE h
    IN IF k.tlsHandshakeTimeout # 0
           THEN [h1 EXCEPT !.transports[at].TLSHandshakeTimeout = k.tlsHandshakeTimeout]
       ELSE h1

\* The request has body bytes to transmit.
Carries(h) ==
    \/ h.req.copy = "full"
    \/ (h.req.copy = "none" /\ h.req.at # 0 /\ h.req.at \notin h.drained)

\* The heap after prepareFiles: with files c.body is a new buffer.
PrepareFilesBody(h, c, k) == IF Len(k.files) > 0 THEN AllocBody(h, c) ELSE h

\* The heap after http.NewRequest(method, c.url, c.body): req.Body reads the
\* stream c.body points to.
NewRequestBody(h, c) == [h EXCEPT !.req = [at |-> h.bodyAt[c], copy |-> "none"]]

\* The heap after httputil.DumpRequestOut(req, true): it reads req.Body to the
\* end and leaves a copy of what it read in its place.
DumpRequestBody(h) ==
    IF h.req.at = 0 THEN h
    ELSE [h EXCEPT !.drained = @ \cup {h.req.at},
                   !.req.copy = IF h.req.at \in h.drained THEN "used" ELSE "full"]

\* Whether c.c.Do(req) reads the request's body to the end: it does when the
\* exchange is answered, it does not when the request never leaves (no scheme,
\* connection refused), and it may or may not when the exchange breaks.
BodyConsumedBy(h, out) ==
    IF ~Carries(h) THEN {FALSE}
    ELSE IF out.hang THEN {TRUE}
    ELSE IF out.err = Nil THEN {TRUE}
    ELSE IF out.err \in {"unsupported protocol scheme", "refused"} THEN {FALSE}
    ELSE {TRUE, FALSE}

\* The heap after the request's body was read to the end.
ConsumeBody(h) ==
    IF h.req.copy = "full" THEN [h EXCEPT !.req.copy = "used"]
    ELSE [h EXCEPT !.drained = @ \cup {h.req.at}]

\* resp.Body: the bytes left to read, whether they are held in memory (or still
\* come from the connection), and whether a read of the connection has failed.
NoRespBody == [left |-> "", mem |-> TRUE, broken |-> FALSE]

\* The body the server sends with its answer.
BodyOfAnswer(srv) == IF "body" \in DOMAIN srv THEN srv.body ELSE ""

\* resp.Body as c.c.Do returns it: nothing read yet, read from the connection.
ResponseBody(srv) == [left |-> BodyOfAnswer(srv), mem |-> FALSE, broken |-> FALSE]

\* DumpResponseBody leaving the stream where the dump stopped reading.
DumpResponseBody_Consume(b) == [b EXCEPT !.left = "", !.mem = TRUE]

\* resp.Body after httputil.DumpResponse(resp, true) succeeded: it reads the
\* body to the end into memory, dumps one copy and puts another in its place.
DumpResponseBody(b) == [b EXCEPT !.mem = TRUE]

\* The heap after the attempt that ended with out: the response's body, dumped
\* in debug mode; when the dump fails Do returns no response.
ReceiveBody(h, out, srv, debug, dumped) ==
    IF out.hang \/ out.err # Nil THEN h
    ELSE IF ~debug THEN [h EXCEPT !.resp = ResponseBody(srv)]
    ELSE IF dumped THEN [h EXCEPT !.resp = DumpResponseBody(ResponseBody(srv))]
    ELSE [h EXCEPT !.resp = NoRespBody]

\* ReadAllOutcomes giving the whole body again on every call.
ReadAllOutcomes_Rewind(b) ==
    {[data |-> b.left, err |-> Nil, body |-> b]}

\* ioutil.ReadAll(resp.Body): the bytes left, and nothing is left after it; a
\* read of the connection can fail, and then fails again.
ReadAllOutcomes(b) ==
    LET done == [data |-> b.left, err |-> Nil, body |-> [b EXCEPT !.left = ""]]
        failed == [data |-> "", err |-> "read", body |-> [b EXCEPT !.broken = TRUE]]
    IN IF b.broken THEN {failed}
       ELSE IF b.mem THEN {done}
       ELSE {done, failed}

\* json.Unmarshal(data, v): the texts it decodes, and its error on the others,
\* the empty one among them.
ValidJSON == {"{}"}
Unmarshal(data) == IF data \in ValidJSON THEN Nil ELSE "decode"

\* What each extraction returns from r, the outcome of its ReadAll: AsString
\* the text or "" with the error, AsBytes the bytes read with the error,
\* AsJSON the error of the read or of the decoding (data: what v was given).
AsStringResult(r) ==
    IF r.err # Nil THEN [data |-> "", err |-> r.err, read |-> FALSE]
    ELSE [data |-> r.data, err |-> Nil, read |-> TRUE]
AsBytesResult(r) == [data |-> r.data, err |-> r.err, read |-> r.err = Nil]
AsJSONResult(r) ==
    IF r.err # Nil THEN [data |-> "", err |-> r.err, read |-> FALSE]
    ELSE [data |-> IF Unmarshal(r.data) = Nil THEN r.data ELSE "",
          err |-> Unmarshal(r.data), read |-> TRUE]

\* The clients after the struct of c becomes k: what c wrote into its maps is
\* seen by every client whose field points to the same map.
Store(c, k) ==
    [d \in DOMAIN cl |->
        IF d = c THEN k
        ELSE [cl[d] EXCEPT
                !.query = IF heap.queryAt[d] = heap.queryAt[c] THEN k.query ELSE @,
                !.headers = IF heap.headersAt[d] = heap.headersAt[c]
                                THEN k.headers ELSE @]]

\* ------------------------------------------------------------- clones

\* The clients Client.New makes, in the order it makes them.
Clones == <<"c2", "c3">>

\* CloneClient leaving the path of the new client empty.
CloneClient_NoPath(k) == [k EXCEPT !.path = <<>>]

\* Client.New, the fields of the new struct: each one assigned from c's.
CloneClient(k) ==
    [ url |-> k.url, path |-> k.path, auth |-> k.auth, proxy |-> k.proxy,
      timeout |-> k.timeout, tlsHandshakeTimeout |-> k.tlsHandshakeTimeout,
      retries |-> k.retries, debug |-> k.debug,
      query |-> k.query, headers |-> k.headers,
      hc |-> k.hc, queryStructs |-> k.queryStructs, body |-> k.body,
      cookies |-> k.cookies, files |-> k.files ]

\* CopyMapAt handing back the map it was given.
CopyMapAt_Shared(h, at) == at

\* copyMap: the entries are copied into a new map.
CopyMapAt(h, at) == FreshMap(h)

\* CloneBodyAt giving the new client a stream of its own with the same bytes.
CloneBodyAt_Copy(h, c) == IF h.bodyAt[c] = 0 THEN 0 ELSE FreshStream(h)

\* newClient.body = c.body: the same stream.
CloneBodyAt(h, c) == h.bodyAt[c]

\* newClient.queryStructs = c.queryStructs, and the same for cookies and
\* files: the slice headers are copied, the arrays shared.
CloneSlices(h, c) == h.slices[c]

\* newClient.transport = c.transport: the same http.Transport.
CloneTransportAt(h, c) == h.transportAt[c]

\* Client.New, the pointers of the new struct c2.
CloneHeap(h, c, c2) ==
    LET h1 == [h EXCEPT !.queryAt = @ @@ (c2 :> CopyMapAt(h, h.queryAt[c]))]
        h2 == [h1 EXCEPT !.headersAt = @ @@ (c2 :> CopyMapAt(h1, h.headersAt[c]))]
    IN [h2 EXCEPT !.bodyAt = @ @@ (c2 :> CloneBodyAt(h, c)),
                  !.slices = @ @@ (c2 :> CloneSlices(h, c)),
                  !.transportAt = @ @@ (c2 :> CloneTransportAt(h, c))]

\* ------------------------------------------------------------- racing on c.url

\* The goroutines, and what each has got from its call so far.
Threads == {"t1", "t2"}
NoGot == [status |-> Nil, url |-> ""]

\* No goroutine is running; c.url is the empty string of New().
NoThreads ==
    [ word |-> [ptr |-> "", len |-> ""],
      of |-> [t \in Threads |-> [pc |-> "idle", url |-> "", half |-> Nil, got |-> NoGot]] ]

\* The number of bytes of the URL texts the goroutines pass.
Bytes(u) == IF u = "" THEN 0 ELSE IF u = UrlRoot THEN 8 ELSE 11

\* What a use of a string with a nil data pointer and a length does, and a
\* text that parses as a URL but is none of the texts passed.
Crash == "crash"
UrlGarbage == "http://h???"

\* The text a load of the two words of a string gives: the text both words
\* belong to; otherwise the first len bytes at ptr, which is a prefix of the
\* text at ptr when that is long enough (the shorter of the texts passed is a
\* prefix of the longer), and when it is not, that text
\* followed by whatever lies behind it in memory, which may or may not parse
\* as a URL; with a nil pointer and a length the use of the string faults.
ReadWord(w) ==
    IF w.ptr = w.len THEN {w.ptr}
    ELSE IF Bytes(w.len) = 0 THEN {""}
    ELSE IF w.ptr = "" THEN {Crash}
    ELSE IF Bytes(w.len) <= Bytes(w.ptr) THEN {w.len}
    ELSE {UrlBad, UrlGarbage}

\* LoadURL giving each call the URL it was passed.
LoadURL_Local(t, w) == {th.of[t].url}

\* The load of c.url in prepareRequest, by goroutine t.
LoadURL(t, w) == ReadWord(w)

\* ------------------------------------------------------------- actions

NoCall ==
    [c |-> Nil, method |-> Nil, url |-> "", req |-> NoReq, tried |-> 0, resp |-> NoResp,
     err |-> Nil]
NoRet == [resp |-> NoResp, err |-> Nil]

\* A configuration call on the builder, recorded in the history.
Configure(c, op, arg, k) ==
    /\ pc = "idle"
    /\ Len(ops) < MaxOps
    /\ cl' = Store(c, k)
    /\ ops' = Append(ops, [c |-> c, op |-> op, arg |-> arg])
    /\ heap' = Collect(SetBodyAt(heap, c, op, arg))
    /\ UNCHANGED <<pc, call, ret, log, th>>

\* A configuration call of the execution policy; no claim reads its history.
Policy(c, k) ==
    /\ pc = "idle"
    /\ cl' = [cl EXCEPT ![c] = k]
    /\ UNCHANGED <<pc, call, ret, log, ops, heap, th>>

\* A configuration call that appends to a slice field of c, k being c with the
\* element appended: append writes the new element into the field's array when
\* it has room, where every slice of that array long enough sees it, and into a
\* new array of its own otherwise.
AppendOn(c, field, k, op, arg) ==
    /\ pc = "idle"
    /\ Len(ops) < MaxOps
    /\ LET n == Len(cl[c][field])
           s == heap.slices[c][field]
       IN IF Len(k[field]) = n
              THEN /\ cl' = [cl EXCEPT ![c] = k]
                   /\ heap' = heap
          ELSE IF n < s.cap
              THEN /\ cl' = [d \in DOMAIN cl |->
                              IF d = c THEN k
                              ELSE IF /\ heap.slices[d][field].arr = s.arr
                                      /\ Len(cl[d][field]) > n
                                  THEN [cl[d] EXCEPT ![field][n + 1] = k[field][n + 1]]
                              ELSE cl[d]]
                   /\ heap' = heap
          ELSE /\ cl' = [cl EXCEPT ![c] = k]
               /\ heap' = GrowSlice(heap, c, field, n)
    /\ ops' = Append(ops, [c |-> c, op |-> op, arg |-> arg])
    /\ UNCHANGED <<pc, call, ret, log, th>>

PathCalls == Cardinality({i \in 1..Len(ops) : ops[i].op = "Path"})

Path(c, seg) ==
    /\ PathCalls < MaxPathCalls
    /\ Configure(c, "Path", seg, WithPath(cl[c], seg))

URL(c, u) == Policy(c, WithURL(cl[c], u))

Query(c, key, value) ==
    Configure(c, "Query", <<key, value>>, WithQuery(cl[c], key, value))

QueryStruct(c, s) ==
    AppendOn(c, "queryStructs", WithQueryStruct(cl[c], s), "QueryStruct", s)

Header(c, key, value) ==
    Configure(c, "Header", <<key, value>>, WithHeader(cl[c], key, value))

JSON(c, bodyJSON) == Configure(c, "JSON", bodyJSON, WithJSON(cl[c], bodyJSON))

JSONStruct(c, v) == Configure(c, "JSONStruct", v, WithJSONStruct(cl[c], v))

Form(c, v) == Configure(c, "Form", v, WithForm(cl[c], v))

Body(c, r) == Configure(c, "Body", r, WithBody(cl[c], r))

File(c, f, fileName, fieldName) ==
    AppendOn(c, "files", WithFile(cl[c], f, fileName, fieldName),
             "File", <<f, fileName, fieldName>>)

Cookie(c, cookie) == AppendOn(c, "cookies", WithCookie(cl[c], cookie), "Cookie", cookie)

BasicAuth(c, username, password) ==
    Configure(c, "BasicAuth", <<username, password>>,
              WithBasicAuth(cl[c], username, password))

\* Client.New: c2 is the client it returns.
New(c, c2) ==
    /\ pc = "idle"
    /\ Len(ops) < MaxOps
    /\ \E i \in 1..Len(Clones) :
          /\ c2 = Clones[i]
          /\ c2 \notin DOMAIN cl
          /\ \A j \in 1..(i - 1) : Clones[j] \in DOMAIN cl
    /\ cl' = cl @@ (c2 :> CloneClient(cl[c]))
    /\ heap' = CloneHeap(heap, c, c2)
    /\ ops' = Append(ops, [c |-> c, op |-> "New", arg |-> c2])
    /\ UNCHANGED <<pc, call, ret, log, th>>

Proxy(c, proxy) == Configure(c, "Proxy", proxy, WithProxy(cl[c], proxy))

TLSHandshakeTimeout(c, t) ==
    Configure(c, "TLSHandshakeTimeout", t, WithTLSHandshakeTimeout(cl[c], t))

Timeout(c, t) == Policy(c, WithTimeout(cl[c], t))

Retries(c, n) == Policy(c, WithRetries(cl[c], n))

Debug(c, d) == Policy(c, WithDebug(cl[c], d))

\* Client.Do up to the retry loop, on the client c whose struct is k0 with the
\* heap h0: c.URL(url), prepareRequest, and in debug mode the dump of the
\* request (dumped tells whether DumpRequestOut succeeds).
DoFrom(c, k0, h0, method, url, dumped) ==
    /\ LET r == PrepareRequest(WithURL(k0, url), method)
           hs == IF r.err = "proxy" THEN h0 ELSE SetupTransport(h0, c, r.k)
           h == IF r.err \in {"proxy", "file"} THEN hs
                ELSE PrepareFilesBody(hs, c, r.k)
       IN
       /\ cl' = Store(c, r.k)
       /\ log' = <<>>
       /\ IF r.status = "panic"
              THEN /\ pc' = "panic"
                   /\ call' = [NoCall EXCEPT !.c = c, !.method = method, !.url = url]
                   /\ ret' = NoRet
                   /\ heap' = h
          ELSE IF r.status = "err"
              THEN /\ pc' = "done"
                   /\ call' = [NoCall EXCEPT !.c = c, !.method = method, !.url = url]
                   /\ ret' = [resp |-> NoResp, err |-> r.err]
                   /\ heap' = h
          ELSE /\ dumped \in (IF r.k.debug THEN DumpRequestOutcomes(r.req) ELSE {TRUE})
               /\ heap' = IF r.k.debug THEN DumpRequestBody(NewRequestBody(h, c))
                          ELSE NewRequestBody(h, c)
               /\ IF ~dumped
                      THEN /\ pc' = "done"
                           /\ call' = [NoCall EXCEPT !.c = c, !.method = method,
                                                     !.url = url, !.req = r.req]
                           /\ ret' = [resp |-> NoResp, err |-> "dumprequest"]
                  ELSE /\ pc' = "sending"
                       /\ call' = [NoCall EXCEPT !.c = c, !.method = method,
                                                 !.url = url, !.req = r.req]
                       /\ ret' = NoRet
    /\ UNCHANGED <<ops, th>>

\* A terminal call on the builder c.
DoStart(c, method, url, dumped) ==
    /\ pc = "idle"
    /\ DoFrom(c, cl[c], heap, method, url, dumped)

\* The package-level shortcuts, on the client the package variable
\* DefaultClient points to: Get(url) is DefaultClient.Get(url), Post(url, data)
\* is DefaultClient.Body(data).Post(url).
DefaultClient == CHOOSE c \in Clients : TRUE

Get(url, dumped) == DoStart(DefaultClient, "GET", url, dumped)

Post(url, data, dumped) ==
    /\ pc = "idle"
    /\ DoFrom(DefaultClient, WithBody(cl[DefaultClient], data),
              Collect(SetBodyAt(heap, DefaultClient, "Body", data)), "POST", url, dumped)

\* One turn of the retry loop, and on its last turn the rest of Client.Do: the
\* final error, in debug mode the dump of the response (dumped tells whether
\* DumpResponse succeeds), and the return.
Attempt(srv, dumped) ==
    /\ pc = "sending"
    /\ \E out \in ClientDo(cl[call.c].hc, call.req, srv) :
          /\ log' = Append(log, [srv |-> srv, out |-> out, carried |-> Carries(heap),
                                 via |-> TransportOf(heap, call.c)])
          /\ \E consumed \in BodyConsumedBy(heap, out) :
                heap' = ReceiveBody(IF consumed THEN ConsumeBody(heap) ELSE heap,
                                    out, srv, cl[call.c].debug, dumped)
          /\ IF out.hang
                 THEN /\ pc' = "hung"
                      /\ UNCHANGED <<call, ret>>
             ELSE LET tried == call.tried + 1
                      err == AttemptErr(call.err, out)
                  IN /\ call' = [call EXCEPT !.tried = tried, !.resp = out.resp,
                                             !.err = err]
                     /\ IF ~LoopBreak(cl[call.c].retries, tried, out)
                            THEN /\ pc' = "sending"
                                 /\ dumped
                                 /\ ret' = ret
                        ELSE /\ pc' = "done"
                             /\ IF err # Nil
                                    THEN /\ dumped
                                         /\ ret' = [resp |-> NoResp, err |-> err]
                                ELSE IF cl[call.c].debug /\ ~dumped
                                    THEN ret' = [resp |-> NoResp, err |-> "dumpresponse"]
                                ELSE /\ (cl[call.c].debug \/ dumped)
                                     /\ ret' = [resp |-> out.resp, err |-> Nil]
    /\ UNCHANGED <<cl, ops, th>>

\* The caller takes the result; the builder is free for the next call.
Return ==
    /\ pc = "done"
    /\ pc' = "idle"
    /\ call' = NoCall
    /\ ret' = NoRet
    /\ log' = <<>>
    /\ heap' = Collect([heap EXCEPT !.req = NoReqBody, !.resp = NoRespBody])
    /\ UNCHANGED <<cl, ops, th>>

\* The caller takes the result and at once makes the same terminal call again
\* on the same builder, with the same arguments.
Redo(dumped) ==
    /\ pc = "done"
    /\ DoFrom(call.c, cl[call.c],
              Collect([heap EXCEPT !.req = NoReqBody, !.resp = NoRespBody]),
              call.method, call.url, dumped)

\* An extraction on the response the caller holds, recorded with its result.
Extract(op, result) ==
    /\ pc = "done"
    /\ ret.resp # NoResp
    /\ Len(ops) < MaxOps
    /\ \E r \in ReadAllOutcomes(heap.resp) :
          /\ heap' = [heap EXCEPT !.resp = r.body]
          /\ ops' = Append(ops, [c |-> call.c, op |-> op, arg |-> result[r]])
    /\ UNCHANGED <<cl, pc, call, ret, log, th>>

AsString == Extract("AsString", [r \in ReadAllOutcomes(heap.resp) |-> AsStringResult(r)])
AsBytes == Extract("AsBytes", [r \in ReadAllOutcomes(heap.resp) |-> AsBytesResult(r)])
AsJSON == Extract("AsJSON", [r \in ReadAllOutcomes(heap.resp) |-> AsJSONResult(r)])

\* ------------------------------------------------------------- goroutines

\* Concurrent shortcut calls: each goroutine runs Get(url), that is
\* DefaultClient.Do("GET", url), whose steps are c.URL(url), a store of the
\* two words of the string c.url (data pointer and length, in the order the
\* compiler emitted them), and prepareRequest, which loads c.url. Nothing
\* orders the stores of one goroutine and the load of another.
Go(t, url) ==
    /\ pc = "idle"
    /\ th.of[t].pc = "idle"
    /\ th' = [th EXCEPT !.of[t] = [pc |-> "url", url |-> url, half |-> Nil, got |-> NoGot]]
    /\ UNCHANGED <<cl, pc, call, ret, log, ops, heap>>

\* c.URL(url), first word stored (or nothing to store: url is empty).
StoreFirst(t, half) ==
    /\ th.of[t].pc = "url"
    /\ IF th.of[t].url = ""
           THEN th' = [th EXCEPT !.of[t].pc = "prepare"]
       ELSE th' = [th EXCEPT !.word[half] = th.of[t].url,
                             !.of[t].pc = "url2", !.of[t].half = half]
    /\ UNCHANGED <<cl, pc, call, ret, log, ops, heap>>

\* c.URL(url), the other word stored.
StoreSecond(t) ==
    /\ th.of[t].pc = "url2"
    /\ LET half == IF th.of[t].half = "ptr" THEN "len" ELSE "ptr"
       IN th' = [th EXCEPT !.word[half] = th.of[t].url,
                           !.of[t].pc = "prepare", !.of[t].half = Nil]
    /\ UNCHANGED <<cl, pc, call, ret, log, ops, heap>>

\* prepareRequest: setupClient, then http.NewRequest("GET", c.url, c.body)
\* with the text the load of c.url gives.
Resolve(t) ==
    /\ th.of[t].pc = "prepare"
    /\ \E text \in LoadURL(t, th.word) :
          IF text = Crash
              THEN /\ th' = [th EXCEPT !.of[t].pc = "panic"]
                   /\ cl' = cl
          ELSE LET r == PrepareRequest([cl[DefaultClient] EXCEPT !.url = text], "GET")
               IN /\ th' = [th EXCEPT !.of[t].pc = "resolved",
                                      !.of[t].got = [status |-> r.status, url |-> text]]
                  /\ cl' = [cl EXCEPT ![DefaultClient].hc = r.k.hc]
    /\ UNCHANGED <<pc, call, ret, log, ops, heap>>

\* The call returns; the goroutine may call again.
Finish(t) ==
    /\ th.of[t].pc = "resolved"
    /\ th' = [th EXCEPT !.of[t].pc = "idle"]
    /\ UNCHANGED <<cl, pc, call, ret, log, ops, heap>>

\* ------------------------------------------------------------- a base and its clones

\* A base builder that holds n files, cookies and structured query values: the
\* client and the heap after New() and n calls of File, Cookie and QueryStruct.
RECURSIVE BaseWith(_)
BaseWith(n) ==
    IF n = 0 THEN [k |-> NewClient(FALSE), h |-> NewHeap(DefaultClient)]
    ELSE LET b == BaseWith(n - 1)
             c == DefaultClient
         IN [k |-> WithQueryStruct(WithCookie(WithFile(b.k, "f1", "a.txt", "field"),
                                              "ck"), QsOne),
             h |-> GrowSlice(GrowSlice(GrowSlice(b.h, c, "files", n - 1),
                                       c, "cookies", n - 1),
                             c, "queryStructs", n - 1)]

\* The base with up to MaxBase elements in its lists, and a first clone of it.
InitBase ==
    /\ \E n \in 0..MaxBase :
          /\ cl = (DefaultClient :> BaseWith(n).k) @@ (Clones[1] :> CloneClient(BaseWith(n).k))
          /\ heap = CloneHeap(BaseWith(n).h, DefaultClient, Clones[1])
    /\ pc = "idle"
    /\ call = NoCall
    /\ ret = NoRet
    /\ log = <<>>
    /\ ops = <<>>
    /\ th = NoThreads

\* ------------------------------------------------------------- specifications

\* A client fresh from New(); GOHTTP_DEBUG may or may not be set.
Init ==
    /\ cl \in [Clients -> {NewClient(d) : d \in BOOLEAN}]
    /\ pc = "idle"
    /\ call = NoCall
    /\ ret = NoRet
    /\ log = <<>>
    /\ ops = <<>>
    /\ heap = NewHeap(CHOOSE c \in Clients : TRUE)
    /\ th = NoThreads

Alphabet == {Slash, Dot, "a"}
Segments == UNION {[1..n -> Alphabet] : n \in 0..MaxSegLen}
Timeouts == {0, 1, DefaultTimeout}
RetryCounts == -1..MaxRetries
QuickAnswer == [answers |-> TRUE, delay |-> 0, status |-> 200, err |-> Nil]

\* The execution policy and the retry loop.
Next ==
    \/ \E c \in Clients, n \in RetryCounts : Retries(c, n)
    \/ \E c \in Clients, t \in Timeouts : Timeout(c, t)
    \/ \E c \in Clients, d \in BOOLEAN : Debug(c, d)
    \/ \E c \in Clients, u \in {"", UrlRoot, UrlBad}, dumped \in BOOLEAN :
          DoStart(c, "GET", u, dumped)
    \/ \E srv \in ServerBehaviours, dumped \in BOOLEAN : Attempt(srv, dumped)
    \/ Return

Spec == Init /\ [][Next]_vars

\* The same with GOHTTP_DEBUG unset.
InitQuiet == Init /\ \A c \in Clients : ~cl[c].debug

\* Path segments and their resolution into the request's URL path.
NextPath ==
    \/ \E c \in Clients, seg \in Segments : Path(c, seg)
    \/ \E c \in Clients, u \in {UrlRoot, UrlDir} : DoStart(c, "GET", u, TRUE)
    \/ Attempt(QuickAnswer, TRUE)

SpecPath == InitQuiet /\ [][NextPath]_vars

\* Simple and structured query parameters and their merge into the query string.
NextQuery ==
    \/ \E c \in Clients, key \in Keys, value \in {"v1", "v2"} : Query(c, key, value)
    \/ \E c \in Clients, qs \in QueryStructValues : QueryStruct(c, qs)
    \/ \E c \in Clients, u \in {UrlRoot, UrlQuery} : DoStart(c, "GET", u, TRUE)
    \/ Attempt(QuickAnswer, TRUE)

SpecQuery == InitQuiet /\ [][NextQuery]_vars

\* The body setters, Header and File, and what resolution makes of them.
NextBody ==
    \/ \E c \in Clients, bodyJSON \in {"", "j1"} : JSON(c, bodyJSON)
    \/ \E c \in Clients, v \in Payloads \cup {Nil} : JSONStruct(c, v)
    \/ \E c \in Clients, v \in Payloads \cup {Nil} : Form(c, v)
    \/ \E c \in Clients, r \in {"r1", Nil} : Body(c, r)
    \/ \E c \in Clients : File(c, "f1", "a.txt", "field")
    \/ \E c \in Clients : Header(c, contentType, "text/plain")
    \/ \E c \in Clients : DoStart(c, "POST", UrlRoot, TRUE)
    \/ Attempt(QuickAnswer, TRUE)

SpecBody == InitQuiet /\ [][NextBody]_vars

\* The clients there are: the first one and the clones made of it so far.
Live == DOMAIN cl
CloneIds == {Clones[i] : i \in 1..Len(Clones)}

\* Clones and their paths.
ClonePaths == {<<"a">>, <<Slash, "b">>, DotDot}

NextClonePath ==
    \/ \E c \in Live, c2 \in CloneIds : New(c, c2)
    \/ \E c \in Live, seg \in ClonePaths : Path(c, seg)
    \/ \E c \in Live : DoStart(c, "GET", UrlDir, TRUE)
    \/ Attempt(QuickAnswer, TRUE)

SpecClonePath == InitQuiet /\ [][NextClonePath]_vars

\* A client and its clone: headers, simple query values, and the Content-Type
\* that body setters and resolution write.
NextCloneMaps ==
    \/ \E c \in Live : New(c, Clones[1])
    \/ \E c \in Live : Header(c, contentType, "text/plain")
    \/ \E c \in Live : Query(c, "k1", "v1")
    \/ \E c \in Live : JSON(c, "j1")
    \/ \E c \in Live : File(c, "f1", "a.txt", "field")
    \/ \E c \in Live : DoStart(c, "POST", UrlRoot, TRUE)
    \/ Attempt(QuickAnswer, TRUE)
    \/ Return

SpecCloneMaps == InitQuiet /\ [][NextCloneMaps]_vars

\* Clients, their clones and the files each of them adds.
NextCloneFiles ==
    \/ \E c \in Live, c2 \in CloneIds : New(c, c2)
    \/ \E c \in Live, f \in {"f1", "f2"} : File(c, f, "a.txt", "field")
    \/ \E c \in Live : DoStart(c, "POST", UrlRoot, TRUE)
    \/ Attempt(QuickAnswer, TRUE)
    \/ Return

SpecCloneFiles == InitQuiet /\ [][NextCloneFiles]_vars

\* Clients, their clones and the body streams they point to; the server
\* answers or refuses the connection.
Refusal == [answers |-> TRUE, delay |-> 0, status |-> 0, err |-> "refused"]

NextCloneBody ==
    \/ \E c \in Live, c2 \in CloneIds : New(c, c2)
    \/ \E c \in Live : Body(c, "r1")
    \/ \E c \in Live : JSON(c, "j1")
    \/ \E c \in Live : File(c, "f1", "a.txt", "field")
    \/ \E c \in Live, dumped \in BOOLEAN : DoStart(c, "POST", UrlRoot, dumped)
    \/ \E srv \in {QuickAnswer, Refusal} : Attempt(srv, TRUE)
    \/ Return

SpecCloneBody == Init /\ [][NextCloneBody]_vars

\* Terminal calls with and without a URL argument, one after the other.
NextURL ==
    \/ \E c \in Clients, n \in RetryCounts : Retries(c, n)
    \/ \E c \in Clients, u \in URLs, dumped \in BOOLEAN : DoStart(c, "GET", u, dumped)
    \/ \E srv \in {QuickAnswer, Refusal} : Attempt(srv, TRUE)
    \/ Return

SpecURL == Init /\ [][NextURL]_vars

\* Everything resolution applies to the request, and terminal calls whose URL
\* or method http.NewRequest accepts or rejects.
BadMethod == "BAD METHOD"

NextResolve ==
    \/ \E c \in Clients : Path(c, <<"a">>)
    \/ \E c \in Clients : Query(c, "k1", "v1")
    \/ \E c \in Clients : Header(c, contentType, "text/plain")
    \/ \E c \in Clients, cookie \in {"ck", Nil} : Cookie(c, cookie)
    \/ \E c \in Clients, username \in {"", "u"}, password \in {"", "p"} :
          BasicAuth(c, username, password)
    \/ \E c \in Clients, method \in {"GET", BadMethod}, u \in {UrlRoot, UrlBad} :
          DoStart(c, method, u, TRUE)
    \/ Attempt(QuickAnswer, TRUE)

SpecResolve == InitQuiet /\ [][NextResolve]_vars

\* One call and the extractions on its response, with and without the dumps of
\* debug mode; the server answers with a JSON text, another text or no body.
Answers == {[body |-> b] @@ QuickAnswer : b \in {"{}", "x", ""}}

NextExtract ==
    \/ \E c \in Clients, d \in BOOLEAN : Debug(c, d)
    \/ \E c \in Clients : DoStart(c, "GET", UrlRoot, TRUE)
    \/ \E srv \in Answers \cup {Refusal}, dumped \in BOOLEAN : Attempt(srv, dumped)
    \/ AsString
    \/ AsBytes
    \/ AsJSON

SpecExtract == Init /\ [][NextExtract]_vars

\* Successive calls of the package-level shortcuts in one process.
NextShortcuts ==
    \/ \E url \in {"", UrlRoot, UrlDir}, dumped \in BOOLEAN : Get(url, dumped)
    \/ \E url \in {UrlDir, UrlBad}, data \in {Readers[1], Readers[2], Nil}, dumped \in BOOLEAN :
          Post(url, data, dumped)
    \/ \E srv \in {QuickAnswer, Refusal} : Attempt(srv, TRUE)
    \/ Return

SpecShortcuts == Init /\ [][NextShortcuts]_vars

\* File calls with different files, names and fields, and the calls that
\* resolve them.
NextFiles ==
    \/ \E c \in Clients, f \in {"f1", "f2", UnreadableFile},
          fileName \in {"a.txt", "b.txt"}, fieldName \in {"field", "field2"} :
          File(c, f, fileName, fieldName)
    \/ \E c \in Clients : DoStart(c, "POST", UrlRoot, TRUE)
    \/ Attempt(QuickAnswer, TRUE)
    \/ Return

SpecFiles == InitQuiet /\ [][NextFiles]_vars

\* The failures of resolution: a proxy text or a structured query value that
\* cannot be used, with URLs that http.NewRequest accepts or rejects.
ProxyGood == "http://p"

NextSetup ==
    \/ \E c \in Clients, proxy \in {"", ProxyGood, ProxyBad} : Proxy(c, proxy)
    \/ \E c \in Clients, qs \in QueryStructValues : QueryStruct(c, qs)
    \/ \E c \in Clients, u \in {UrlRoot, UrlQuery, UrlBad} : DoStart(c, "GET", u, TRUE)
    \/ Attempt(QuickAnswer, TRUE)
    \/ Return

SpecSetup == InitQuiet /\ [][NextSetup]_vars

\* A builder with a body or a file, and terminal calls repeated on it.
NextRepeat ==
    \/ \E c \in Clients : JSON(c, "j1")
    \/ \E c \in Clients : Body(c, Readers[1])
    \/ \E c \in Clients : File(c, "f1", "a.txt", "field")
    \/ \E c \in Clients : Path(c, <<"a">>)
    \/ \E c \in Clients : DoStart(c, "POST", UrlRoot, TRUE)
    \/ \E srv \in {QuickAnswer, Refusal} : Attempt(srv, TRUE)
    \/ Redo(TRUE)
    \/ Return

SpecRepeat == InitQuiet /\ [][NextRepeat]_vars

\* Clones of one base, and the files, cookies and structured query values
\* each of them adds.
NextCloneLists ==
    \/ \E c2 \in CloneIds : New(DefaultClient, c2)
    \/ \E c \in Live \ {DefaultClient}, f \in {"f1", "f2"} : File(c, f, "b.txt", "field")
    \/ \E c \in Live \ {DefaultClient}, cookie \in {"ck", "ck2"} : Cookie(c, cookie)
    \/ \E c \in Live \ {DefaultClient}, qs \in {QsOne, QsTwo} : QueryStruct(c, qs)
    \/ \E c \in Live \ {DefaultClient} : DoStart(c, "POST", UrlRoot, TRUE)
    \/ Attempt(QuickAnswer, TRUE)

SpecCloneLists == InitBase /\ [][NextCloneLists]_vars

\* Builders that share a transport, each with its own proxy and TLS handshake
\* timeout settings.
NextTransport ==
    \/ \E c \in Live, c2 \in CloneIds : New(c, c2)
    \/ \E c \in Live, proxy \in {"", ProxyGood} : Proxy(c, proxy)
    \/ \E c \in Live, t \in {0, 1} : TLSHandshakeTimeout(c, t)
    \/ \E c \in Live : DoStart(c, "GET", UrlRoot, TRUE)
    \/ Attempt(QuickAnswer, TRUE)
    \/ Return

SpecTransport == InitQuiet /\ [][NextTransport]_vars

\* A builder with a body, and calls that retry: the connection is refused, or
\* breaks after the request was written, or the server answers.
Reset == [answers |-> TRUE, delay |-> 0, status |-> 0, err |-> "reset"]

NextRetryBody ==
    \/ \E c \in Clients, n \in 2..MaxRetries : Retries(c, n)
    \/ \E c \in Clients : JSON(c, "j1")
    \/ \E c \in Clients : Body(c, Readers[1])
    \/ \E c \in Clients, dumped \in BOOLEAN : DoStart(c, "POST", UrlRoot, dumped)
    \/ \E srv \in {QuickAnswer, Refusal, Reset} : Attempt(srv, TRUE)
    \/ Return

SpecRetryBody == Init /\ [][NextRetryBody]_vars

\* Calls with every retry count against a transport whose every attempt
\* returns, with an answer or an error. The loop is sequential code: once
\* c.c.Do has returned the next turn, or the return, follows.
Returning == ServerBehaviours \ {NoAnswer}

NextLoop ==
    \/ \E c \in Clients, n \in RetryCounts : Retries(c, n)
    \/ \E c \in Clients, u \in {"", UrlRoot, UrlBad}, dumped \in BOOLEAN :
          DoStart(c, "GET", u, dumped)
    \/ \E srv \in Returning, dumped \in BOOLEAN : Attempt(srv, dumped)
    \/ Return

SpecLoop ==
    /\ Init
    /\ [][NextLoop]_vars
    /\ WF_vars(\E srv \in Returning, dumped \in BOOLEAN : Attempt(srv, dumped))

\* Two goroutines calling the shortcut Get at once.
NextRace ==
    \/ \E t \in Threads, url \in {"", UrlRoot, UrlDir} : Go(t, url)
    \/ \E t \in Threads, half \in {"ptr", "len"} : StoreFirst(t, half)
    \/ \E t \in Threads : StoreSecond(t)
    \/ \E t \in Threads : Resolve(t)
    \/ \E t \in Threads : Finish(t)

SpecRace == InitQuiet /\ [][NextRace]_vars

\* ------------------------------------------------------------- the retry loop

\* The call in flight has returned.
Returned == pc = "done"

\* The number of times the call in flight has called c.c.Do(req).
Attempts == Len(log)

\* The call in flight got as far as the retry loop and made an attempt.
Sent == Len(log) > 0

Failed(i) == log[i].out.err # Nil
Answered(i) == log[i].out.err = Nil /\ ~log[i].out.hang
LastOut == log[Len(log)].out

\* The retry count and the debug flag of the client of the call in flight.
RetriesSet == cl[call.c].retries
DebugSet == cl[call.c].debug

\* C1: with retries n > 1 and a transport that fails on every attempt, a call
\* that hands its request to the retry loop makes exactly n attempts, no fewer
\* before it returns, and returns an error and no response.
C1_ExactlyNAttemptsOnFailure ==
    (pc \in {"sending", "done"} /\ RetriesSet > 1 /\ \A i \in 1..Len(log) : Failed(i))
        => /\ Attempts <= RetriesSet
           /\ (pc = "sending" => Attempts < RetriesSet)
           /\ (Returned /\ Sent =>
                  /\ Attempts = RetriesSet
                  /\ ret.err # Nil
                  /\ ret.resp = NoResp)

C1_Witness ==
    /\ Returned
    /\ RetriesSet = 3
    /\ Attempts = 3
    /\ \A i \in 1..3 : Failed(i)
    /\ ret.err # Nil

\* C2: with retries unset (0), 1 or negative, a call that hands its request to
\* the retry loop makes exactly one attempt, whether it succeeds or fails.
C2_SingleAttemptWithoutRetries ==
    (pc \in {"sending", "done"} /\ RetriesSet <= 1)
        => /\ (pc = "sending" => Attempts = 0)
           /\ (Returned /\ Sent => Attempts = 1)

C2_Witness ==
    /\ Returned
    /\ RetriesSet = -1
    /\ Attempts = 1
    /\ Failed(1)
    /\ ret.err # Nil

\* The result of a call whose last attempt was answered: the response, or in
\* debug mode the error of a failed response dump.
AnsweredResult ==
    \/ ret = [resp |-> LastOut.resp, err |-> Nil]
    \/ (DebugSet /\ ret = [resp |-> NoResp, err |-> "dumpresponse"])

\* C3 as stated: with retries n > 1 the call stops at the first attempt that
\* returns without a transport error and returns that response with no error.
C3_Original ==
    (Returned /\ Sent /\ RetriesSet > 1 /\ Answered(Len(log)))
        => /\ \A i \in 1..(Len(log) - 1) : Failed(i)
           /\ ret = [resp |-> LastOut.resp, err |-> Nil]

\* C3 amended: with retries n > 1 the loop stops at the first attempt k <= n
\* that returns without a transport error: exactly k attempts are made, none
\* after it, and the call returns that response with no error, or, in debug
\* mode when the response dump fails, the dump's error and no response.
C3_StopsAtFirstSuccess ==
    (pc \in {"sending", "done"} /\ RetriesSet > 1)
        => \A k \in 1..Len(log) :
              Answered(k) => /\ k = Len(log)
                             /\ k <= RetriesSet
                             /\ Returned
                             /\ AnsweredResult

C3_Witness ==
    /\ Returned
    /\ RetriesSet = 3
    /\ Attempts = 2
    /\ Failed(1)
    /\ Answered(2)
    /\ ret = [resp |-> LastOut.resp, err |-> Nil]

NonSuccessStatus(st) == st < 200 \/ st > 299

\* C4 as stated: a non-2xx response obtained without transport error is
\* returned as (response, no error) and never retried.
C4_Original ==
    (pc \in {"sending", "done"})
        => \A k \in 1..Len(log) :
              (Answered(k) /\ NonSuccessStatus(log[k].out.resp.status))
                  => /\ k = Len(log)
                     /\ Returned
                     /\ ret = [resp |-> log[k].out.resp, err |-> Nil]

\* C4 amended: for every retry count a non-2xx response obtained without
\* transport error is never retried, and is returned as (response, no error)
\* unless debug mode is on and the response dump fails, when the call returns
\* the dump's error and no response.
C4_StatusIsNotAnError ==
    (pc \in {"sending", "done"})
        => \A k \in 1..Len(log) :
              (Answered(k) /\ NonSuccessStatus(log[k].out.resp.status))
                  => /\ k = Len(log)
                     /\ Returned
                     /\ AnsweredResult

C4_Witness ==
    /\ Returned
    /\ RetriesSet = 3
    /\ Attempts = 1
    /\ Answered(1)
    /\ ret = [resp |-> [status |-> 404], err |-> Nil]

\* C5: when the last permitted attempt fails the call returns that attempt's
\* error, not an earlier one, and no response; no call returns both a response
\* and an error.
C5_LastErrorNoResponse ==
    Returned
        => /\ ~(ret.resp # NoResp /\ ret.err # Nil)
           /\ (Sent /\ Failed(Len(log)) => ret = [resp |-> NoResp, err |-> LastOut.err])

C5_Witness ==
    /\ Returned
    /\ Attempts = 2
    /\ Failed(1)
    /\ Failed(2)
    /\ log[1].out.err # log[2].out.err
    /\ ret.err = log[2].out.err

\* The attempt's exchange takes longer than the limit the builder configured.
ExceedsTimeout(i) ==
    /\ cl[call.c].timeout # 0
    /\ (~log[i].srv.answers \/ log[i].srv.delay > cl[call.c].timeout)

\* C6: an attempt that exceeds the configured timeout ends with a transport
\* error, never hangs, and is retried while attempts remain under Retries(n).
C6_TimeoutIsRetryableError ==
    (pc \in {"sending", "done", "hung"})
        => \A i \in 1..Len(log) :
              ExceedsTimeout(i)
                  => /\ Failed(i)
                     /\ ~log[i].out.hang
                     /\ pc # "hung"
                     /\ (RetriesSet > 1 /\ i < RetriesSet
                            => (i < Len(log) \/ pc = "sending"))

C6_Witness ==
    /\ Returned
    /\ Attempts = 2
    /\ ExceedsTimeout(1)
    /\ log[1].out.err = "deadline exceeded"
    /\ ~log[1].srv.answers

\* ------------------------------------------------------------- paths

\* The call in flight has a resolved request.
Resolved == pc \in {"sending", "done"} /\ call.req.made

\* The non-empty pieces of a path between its slashes.
Parts(s) == SelectSeq(SplitSlash(s), LAMBDA e : e # <<>>)

IsDotPart(e) == e = <<Dot>> \/ e = DotDot
DotFree(s) == \A i \in 1..Len(Parts(s)) : ~IsDotPart(Parts(s)[i])

\* The base path followed by a then b, one slash before each part; with no
\* path given the base path as it is.
JoinedPath(base, a, b) ==
    IF a = <<>> /\ b = <<>> THEN base
    ELSE <<Slash>> \o JoinSlash(Parts(base) \o Parts(a) \o Parts(b))

TwoPaths == Len(ops) = 2 /\ ops[1].op = "Path" /\ ops[2].op = "Path"

RECURSIVE ValuesOf(_, _)
ValuesOf(raw, k) ==
    IF raw = <<>> THEN <<>>
    ELSE (IF Head(raw)[1] = k THEN <<Head(raw)[2]>> ELSE <<>>) \o ValuesOf(Tail(raw), k)

QueryCalls(k) == {i \in 1..Len(ops) : ops[i].op = "Query" /\ ops[i].arg[1] = k}
LastQueryCall(k) == CHOOSE i \in QueryCalls(k) : \A j \in QueryCalls(k) : j <= i

\* The values the structured query values registered so far hold for key k.
RECURSIVE StructValuesOf(_, _)
StructValuesOf(i, k) ==
    IF i > Len(ops) THEN <<>>
    ELSE (IF ops[i].op = "QueryStruct"
              THEN ValuesOf(QueryValues(ops[i].arg).pairs, k) ELSE <<>>)
         \o StructValuesOf(i + 1, k)

\* C8 as stated: after Query(k, v1) then Query(k, v2) the resolved query string
\* holds k only once, with the value v2.
C8_Original ==
    Resolved
        => \A k \in Keys :
              Cardinality(QueryCalls(k)) >= 2
                  => ValuesOf(call.req.rawQuery, k) = <<ops[LastQueryCall(k)].arg[2]>>

\* C8 amended: after Query(k, v1) then Query(k, v2) the simple query map
\* contributes k to the resolved query string exactly once, with the value v2,
\* between the values the base URL's own query string holds for k and those the
\* structured query values hold for k; so k appears only once, with v2, when
\* neither of these supplies k.
C8_LastQueryValueWins ==
    Resolved
        => \A k \in Keys :
              Cardinality(QueryCalls(k)) >= 2
                  => ValuesOf(call.req.rawQuery, k)
                        = ValuesOf(UrlParse(call.req.url).rawQuery, k)
                          \o <<ops[LastQueryCall(k)].arg[2]>>
                          \o StructValuesOf(1, k)

C8_Witness ==
    /\ Resolved
    /\ Len(ops) = 2
    /\ ops[1].op = "Query"
    /\ ops[1].arg = <<"k1", "v1">>
    /\ ops[2].op = "Query"
    /\ ops[2].arg = <<"k1", "v2">>
    /\ call.req.rawQuery = <<<<"k1", "v2">>>>

\* ------------------------------------------------------------- bodies

\* The call changes the body: a setter given something to set, or File.
Effective(o) ==
    \/ o.op = "File"
    \/ (o.op = "JSON" /\ o.arg # "")
    \/ (o.op \in {"JSONStruct", "Form", "Body"} /\ o.arg # Nil)

\* The call writes the Content-Type header of the builder.
WritesContentType(o) ==
    \/ (o.op = "JSON" /\ o.arg # "")
    \/ (o.op \in {"JSONStruct", "Form"} /\ o.arg # Nil)
    \/ (o.op = "Header" /\ o.arg[1] = contentType)

Last(S) == CHOOSE i \in S : \A j \in S : j <= i

SetterCalls == {i \in 1..Len(ops) : Effective(ops[i])}
ReaderCalls == {i \in SetterCalls : ops[i].op # "File"}
FileCalls == {i \in 1..Len(ops) : ops[i].op = "File"}
ContentTypeCalls == {i \in 1..Len(ops) : WritesContentType(ops[i])}

\* The body reader a setter call puts in place.
BodyOf(o) ==
    IF o.op = "JSON" THEN TextBody("json", o.arg)
    ELSE IF o.op = "JSONStruct" THEN JsonBody(o.arg)
    ELSE IF o.op = "Form" THEN FormBody(o.arg)
    ELSE TextBody("raw", o.arg)

\* The Content-Type a call writes.
ContentTypeOf(o) ==
    IF o.op \in {"JSON", "JSONStruct"} THEN jsonContentType
    ELSE IF o.op = "Form" THEN formContentType
    ELSE o.arg[2]

RequestContentType(v) ==
    contentType \in DOMAIN call.req.headers /\ call.req.headers[contentType] = v

\* The parts of the File calls, in call order.
RECURSIVE FileParts(_)
FileParts(i) ==
    IF i > Len(ops) THEN <<>>
    ELSE (IF ops[i].op = "File"
              THEN <<[fieldName |-> ops[i].arg[3], filename |-> ops[i].arg[2],
                      file |-> ops[i].arg[1]]>>
          ELSE <<>>) \o FileParts(i + 1)

\* No Header("Content-Type", v) call was made after call i.
NoHeaderSince(i) == \A j \in ContentTypeCalls : ops[j].op = "Header" => j < i

\* C9 as stated: the body and the Content-Type of the resolved request are
\* those of whichever of File, Body, Form, JSON, JSONStruct was called last
\* (Body sets no Content-Type, so after Body only the body is looked at, and
\* a Content-Type the caller set by Header after the setter is the caller's).
C9_Original ==
    (Resolved /\ SetterCalls # {})
        => LET i == Last(SetterCalls)
               o == ops[i]
           IN IF o.op = "File"
                  THEN /\ call.req.body.kind = "multipart"
                       /\ (NoHeaderSince(i) => RequestContentType(multipartContentType))
              ELSE /\ call.req.body = BodyOf(o)
                   /\ (o.op # "Body" /\ NoHeaderSince(i)
                          => RequestContentType(ContentTypeOf(o)))

\* C9 amended: if File was called at all, in whatever order, the resolved body
\* is the multipart encoding of the files and the Content-Type the multipart
\* one; otherwise the body is that of the last of Body, Form, JSON, JSONStruct
\* that was given something to set, and the Content-Type is the one written
\* last by Form, JSON, JSONStruct or Header("Content-Type", v): Body leaves the
\* Content-Type as it was.
C9_FilesWinElseLastSetter ==
    Resolved
        => IF FileCalls # {}
               THEN /\ call.req.body =
                          [kind |-> "multipart", data |-> "", parts |-> FileParts(1)]
                    /\ RequestContentType(multipartContentType)
           ELSE /\ call.req.body =
                      (IF ReaderCalls # {} THEN BodyOf(ops[Last(ReaderCalls)]) ELSE NoBody)
                /\ IF ContentTypeCalls # {}
                       THEN RequestContentType(ContentTypeOf(ops[Last(ContentTypeCalls)]))
                   ELSE contentType \notin DOMAIN call.req.headers

C9_Witness ==
    /\ Resolved
    /\ Len(ops) = 2
    /\ ops[1].op = "File"
    /\ ops[2].op = "JSON"
    /\ ops[2].arg = "j1"
    /\ call.req.body.kind = "multipart"
    /\ RequestContentType(multipartContentType)

\* C10: JSON("") is a no-op: it changes neither the body nor any header, nor
\* any other field of the builder.
C10_EmptyJSONIsNoOp == [][(\E c \in Clients : JSON(c, "")) => cl' = cl]_vars

C10_Witness ==
    /\ pc = "idle"
    /\ Len(ops) = 2
    /\ ops[1].op = "Header"
    /\ ops[1].arg = <<contentType, "text/plain">>
    /\ ops[2].op = "JSON"
    /\ ops[2].arg = ""
    /\ cl["c"].headers[contentType] = "text/plain"
    /\ cl["c"].body = NoBody

\* ------------------------------------------------------------- clones

\* The path of client c after the first i configuration calls, told from the
\* history: a clone starts with the path its origin had when it was cloned, and
\* a Path call joins its segment to the path of the client it is made on.
RECURSIVE PathAt(_, _)
PathAt(c, i) ==
    IF i = 0 THEN <<>>
    ELSE LET o == ops[i] IN
         IF o.op = "New" /\ o.arg = c THEN PathAt(o.c, i - 1)
         ELSE IF o.op = "Path" /\ o.c = c /\ o.arg # <<>>
             THEN FilepathJoin(PathAt(c, i - 1), o.arg)
         ELSE PathAt(c, i - 1)

WithLeadingSlash(p) == IF p # <<>> /\ ~HasPrefixSlash(p) THEN <<Slash>> \o p ELSE p

\* C11: a clone given Path(p) sends its requests to the path its origin had at
\* clone time joined with p, and a Path call on one client leaves the path of
\* every other client, origin or clone, as it was.
C11_ClonePathIndependent ==
    /\ \A d \in Live :
          (pc = "idle" \/ d # call.c) => cl[d].path = PathAt(d, Len(ops))
    /\ Resolved =>
          call.req.path = RequestPath(UrlParse(call.req.url).path,
                                      WithLeadingSlash(PathAt(call.c, Len(ops))))

C11_Witness ==
    /\ Resolved
    /\ call.c = "c2"
    /\ Len(ops) = 3
    /\ ops[1] = [c |-> "c", op |-> "Path", arg |-> <<"a">>]
    /\ ops[2] = [c |-> "c", op |-> "New", arg |-> "c2"]
    /\ ops[3] = [c |-> "c2", op |-> "Path", arg |-> <<Slash, "b">>]
    /\ call.req.path = <<Slash, "x", Slash, "a", Slash, "b">>
    /\ cl["c"].path = <<"a">>

\* The headers client c has set after the first i configuration calls, told
\* from the history: a clone starts with the entries its origin had when it was
\* cloned, and only calls made on c itself write to them.
RECURSIVE HeadersAt(_, _)
HeadersAt(c, i) ==
    IF i = 0 THEN EmptyMap
    ELSE LET o == ops[i] IN
         IF o.op = "New" /\ o.arg = c THEN HeadersAt(o.c, i - 1)
         ELSE IF o.op # "New" /\ o.c = c /\ o.op = "Header"
             THEN MapSet(HeadersAt(c, i - 1), o.arg[1], o.arg[2])
         ELSE IF o.op # "New" /\ o.c = c /\ WritesContentType(o)
             THEN MapSet(HeadersAt(c, i - 1), contentType, ContentTypeOf(o))
         ELSE HeadersAt(c, i - 1)

\* The same for the simple query values.
RECURSIVE QueryAt(_, _)
QueryAt(c, i) ==
    IF i = 0 THEN EmptyMap
    ELSE LET o == ops[i] IN
         IF o.op = "New" /\ o.arg = c THEN QueryAt(o.c, i - 1)
         ELSE IF o.op = "Query" /\ o.c = c
             THEN MapSet(QueryAt(c, i - 1), o.arg[1], o.arg[2])
         ELSE QueryAt(c, i - 1)

\* C12: after c2 = c.New() the headers and the simple query values of c and c2
\* are copies with equal content, and no Header or Query call, no Content-Type
\* written by a body setter or by resolution on one of them shows in a request
\* resolved from the other: a request carries the entries its own client
\* inherited and set, and the multipart Content-Type if its client has files.
C12_CloneMapsIndependent ==
    Resolved =>
        /\ call.req.headers =
              (IF Len(cl[call.c].files) > 0
                   THEN MapSet(HeadersAt(call.c, Len(ops)), contentType, multipartContentType)
               ELSE HeadersAt(call.c, Len(ops)))
        /\ call.req.rawQuery =
              SimpleQuery(UrlParse(call.req.url).rawQuery, QueryAt(call.c, Len(ops)))

C12_Witness ==
    /\ Resolved
    /\ call.c = "c"
    /\ Len(ops) = 3
    /\ ops[1] = [c |-> "c", op |-> "Header", arg |-> <<contentType, "text/plain">>]
    /\ ops[2] = [c |-> "c", op |-> "New", arg |-> "c2"]
    /\ ops[3] = [c |-> "c2", op |-> "JSON", arg |-> "j1"]
    /\ call.req.headers = (contentType :> "text/plain")
    /\ cl["c2"].headers = (contentType :> jsonContentType)

\* The part that a File call asks for.
PartOf(o) == [fieldName |-> o.arg[3], filename |-> o.arg[2], file |-> o.arg[1]]

HasPart(body, part) == \E n \in 1..Len(body.parts) : body.parts[n] = part

\* C13 as stated: after c2 = c.New(), a file that c2.File(...) appends shows on
\* c: a request resolved from c afterwards includes that file part.
C13_Original ==
    Resolved =>
        \A i \in 1..Len(ops), j \in 1..Len(ops) :
            (/\ i < j
             /\ ops[i].op = "New"
             /\ ops[i].c = call.c
             /\ ops[j].op = "File"
             /\ ops[j].c = ops[i].arg)
                => HasPart(call.req.body, PartOf(ops[j]))

\* The configuration call that put the body of client c in place, as of the
\* first i calls (0: none): its own last body setter, or the one its origin
\* had when c was cloned.
RECURSIVE BodySetBy(_, _)
BodySetBy(c, i) ==
    IF i = 0 THEN 0
    ELSE LET o == ops[i] IN
         IF o.op = "New" /\ o.arg = c THEN BodySetBy(o.c, i - 1)
         ELSE IF o.op \in {"JSON", "JSONStruct", "Form", "Body"} /\ o.c = c /\ Effective(o)
             THEN i
         ELSE BodySetBy(c, i - 1)

\* Clients c and d hold the body that one setter call made before they were
\* cloned apart.
SameBody(c, d) ==
    /\ BodySetBy(c, Len(ops)) # 0
    /\ BodySetBy(c, Len(ops)) = BodySetBy(d, Len(ops))

\* Client d still holds the body that it and c had when they were cloned apart:
\* no resolution of d has put a multipart body in its place.
StillHolds(c, d) == SameBody(c, d) /\ Len(cl[d].files) = 0

\* C14 as stated: a body set before New() is one stream shared by the origin
\* and its clones: once a request of one of them has read it to the end, a
\* request that any other of them resolves afterwards has no body bytes left
\* to send.
C14_Original ==
    [][\A c \in Live :
          (/\ pc = "idle"
           /\ pc' = "sending"
           /\ call'.c = c
           /\ \E d \in Live \ {c} : StillHolds(c, d) /\ heap.bodyAt[d] \in heap.drained)
              => ~Carries(heap')]_vars

\* C14 amended: a body set before New() is one stream shared by the origin and
\* its clones: once a request of one of them has read it to the end, a request
\* that another of them resolves afterwards has no body bytes left to send,
\* unless that client has files: its request sends the multipart body that
\* resolution builds in place of the stream.
C14_SharedBodyStream ==
    [][\A c \in Live :
          (/\ pc = "idle"
           /\ pc' = "sending"
           /\ call'.c = c
           /\ Len(cl[c].files) = 0
           /\ \E d \in Live \ {c} : StillHolds(c, d) /\ heap.bodyAt[d] \in heap.drained)
              => ~Carries(heap')]_vars

C14_Witness ==
    /\ pc = "sending"
    /\ call.c = "c2"
    /\ ~cl["c2"].debug
    /\ Len(ops) = 2
    /\ ops[1] = [c |-> "c", op |-> "Body", arg |-> "r1"]
    /\ ops[2] = [c |-> "c", op |-> "New", arg |-> "c2"]
    /\ heap.bodyAt["c"] = ReaderAt("r1")
    /\ heap.bodyAt["c2"] = ReaderAt("r1")
    /\ ReaderAt("r1") \in heap.drained
    /\ ~Carries(heap)

\* ------------------------------------------------------------- the URL argument

\* C15: a terminal call with a non-empty URL argument stores it as the
\* builder's base URL, and it stays: a later terminal call with no (an empty)
\* URL argument leaves the stored URL as it is and sends its request there.
\* Nothing but a terminal call with a non-empty argument changes the URL here.
C15_URLArgumentPersists ==
    [][\A c \in Clients :
          /\ (pc = "idle" /\ pc' # "idle" /\ call'.c = c) =>
                /\ cl'[c].url = (IF call'.url # "" THEN call'.url ELSE cl[c].url)
                /\ (call'.req.made => call'.req.url = cl'[c].url)
          /\ (cl'[c].url # cl[c].url) =>
                (pc = "idle" /\ pc' # "idle" /\ call'.c = c /\ call'.url # "")]_vars

C15_Witness ==
    /\ pc = "sending"
    /\ call.url = ""
    /\ call.req.made
    /\ call.req.url = UrlDir
    /\ cl[call.c].url = UrlDir

\* ------------------------------------------------------------- resolution failures

\* The terminal call in flight was given a method or a URL that
\* http.NewRequest rejects.
Malformed ==
    /\ pc # "idle"
    /\ (~ValidMethod(call.method) \/ ~UrlParse(cl[call.c].url).ok)

\* C16 as stated: a terminal call whose base URL or method is malformed returns
\* a failure and transmits nothing, whatever the builder holds: a path, query
\* parameters, headers, cookies, credentials.
C16_Original ==
    Malformed => /\ pc = "done"
                 /\ ret.err # Nil
                 /\ ret.resp = NoResp
                 /\ Len(log) = 0

\* ------------------------------------------------------------- the response body

Extractions == {"AsString", "AsBytes", "AsJSON"}
Reads == {i \in 1..Len(ops) : ops[i].op \in Extractions}

\* The body the server sent with the response the caller holds.
SentBody == BodyOfAnswer(log[Len(log)].srv)

\* The extraction recorded at i gave the caller the whole of body.
GaveAll(i, body) ==
    /\ ops[i].arg.read
    /\ IF ops[i].op = "AsJSON" /\ body \notin ValidJSON
           THEN ops[i].arg.err = "decode"
       ELSE ops[i].arg.err = Nil /\ ops[i].arg.data = body

\* C17: the first extraction on a response reads the full body the server
\* sent, with the debug flag set as with it unset: whenever its read succeeds
\* it gives that body, and in debug mode, where the response was dumped before
\* it was handed over, it always does.
C17_DumpKeepsResponseBody ==
    (pc = "done" /\ ret.resp # NoResp /\ Reads # {}) =>
        LET i == Min(Reads)
        IN /\ ops[i].arg.read => GaveAll(i, SentBody)
           /\ cl[call.c].debug => GaveAll(i, SentBody)

C17_Witness ==
    /\ pc = "done"
    /\ cl[call.c].debug
    /\ SentBody = "x"
    /\ Len(ops) = 1
    /\ ops[1].op = "AsString"
    /\ ops[1].arg = [data |-> "x", err |-> Nil, read |-> TRUE]

\* C18: once an extraction has read the response body to the end, every later
\* extraction on the same response gives empty content (AsString "", AsBytes
\* no bytes) or an error (AsJSON), and not the content again.
C18_BodyReadOnce ==
    \A i, j \in Reads :
        (i < j /\ ops[i].arg.read) =>
            IF ops[j].op = "AsJSON" THEN ops[j].arg.err # Nil
            ELSE ops[j].arg.data = ""

C18_Witness ==
    /\ Len(ops) = 3
    /\ SentBody = "{}"
    /\ ops[1].op = "AsJSON"
    /\ ops[1].arg = [data |-> "{}", err |-> Nil, read |-> TRUE]
    /\ ops[2].op = "AsString"
    /\ ops[2].arg = [data |-> "", err |-> Nil, read |-> TRUE]
    /\ ops[3].op = "AsJSON"
    /\ ops[3].arg = [data |-> "", err |-> "decode", read |-> TRUE]

\* ------------------------------------------------------------- basic auth

AuthCalls == {i \in 1..Len(ops) : ops[i].op = "BasicAuth"}

\* C19: the credentials are applied to the resolved request if and only if the
\* last BasicAuth(username, password) call had both arguments non-empty, and
\* they are those of that call; a BasicAuth call with an empty username or
\* password after a valid one leaves the request without credentials.
C19_LastBasicAuthDecides ==
    Resolved =>
        IF AuthCalls # {} /\ ops[Last(AuthCalls)].arg[1] # "" /\ ops[Last(AuthCalls)].arg[2] # ""
            THEN call.req.auth = [username |-> ops[Last(AuthCalls)].arg[1],
                                  password |-> ops[Last(AuthCalls)].arg[2]]
        ELSE call.req.auth = NoAuth

C19_Witness ==
    /\ Resolved
    /\ Len(ops) = 2
    /\ ops[1] = [c |-> "c", op |-> "BasicAuth", arg |-> <<"u", "p">>]
    /\ ops[2] = [c |-> "c", op |-> "BasicAuth", arg |-> <<"u", "">>]
    /\ call.req.auth = NoAuth

\* ------------------------------------------------------------- shortcuts

\* What New().Get(url) resolves to in the same process.
FreshGet(url) ==
    PrepareRequest(WithURL(NewClient(cl[DefaultClient].debug), url), "GET")

\* The parts of a request that go on the wire before its body.
SameRequestLine(a, b) ==
    \A f \in {"method", "url", "path", "rawQuery", "headers", "cookies", "auth"} :
        a[f] = b[f]

\* C20 as stated: the shortcut Get(url) sends the request that New().Get(url)
\* sends, the same method, URL and headers and, like it, no body, whatever
\* shortcut calls were made before it in the process.
C20_Original ==
    (pc # "idle" /\ call.method = "GET") =>
        /\ call.req.made = (FreshGet(call.url).status = "ok")
        /\ call.req.made =>
              /\ SameRequestLine(call.req, FreshGet(call.url).req)
              /\ pc = "sending" => ~Carries(heap)
              /\ \A i \in 1..Len(log) : ~log[i].carried

\* ------------------------------------------------------------- concurrent shortcuts

\* C21: concurrent shortcut calls share the one DefaultClient and nothing
\* orders their accesses: every call resolves its request with what the shared
\* field c.url gives at the moment the call loads it, whichever call stored it,
\* so there are interleavings of Get(u1) and Get(u2) in which a request is
\* resolved with the URL of the other call.
C21_ResolvesSharedURL ==
    [][\A t \in Threads :
          (th.of[t].pc = "prepare" /\ th'.of[t].pc = "resolved") =>
              th'.of[t].got.url \in ReadWord(th.word)]_vars

C21_Witness ==
    /\ th.of["t1"].pc = "resolved"
    /\ th.of["t1"].url = UrlRoot
    /\ th.of["t2"].url = UrlDir
    /\ th.of["t2"].pc \in {"prepare", "resolved"}
    /\ th.of["t1"].got = [status |-> "ok", url |-> UrlDir]

\* ------------------------------------------------------------- several files

\* C22: File calls accumulate: the multipart body of the resolved request has
\* one part for every File call made on the builder, in call order, each with
\* the field name and the filename of its call, and the request's Content-Type
\* is the multipart one.
C22_FilesAccumulate ==
    (Resolved /\ FileCalls # {}) =>
        /\ call.req.body.kind = "multipart"
        /\ Len(call.req.body.parts) = Cardinality(FileCalls)
        /\ \A n \in 1..Len(call.req.body.parts) :
              \E i \in FileCalls :
                 /\ Cardinality({j \in FileCalls : j <= i}) = n
                 /\ call.req.body.parts[n].fieldName = ops[i].arg[3]
                 /\ call.req.body.parts[n].filename = ops[i].arg[2]
        /\ RequestContentType(multipartContentType)

C22_Witness ==
    /\ Resolved
    /\ Len(ops) = 2
    /\ ops[1] = [c |-> "c", op |-> "File", arg |-> <<"f1", "a.txt", "field">>]
    /\ ops[2] = [c |-> "c", op |-> "File", arg |-> <<"f2", "b.txt", "field2">>]
    /\ Len(call.req.body.parts) = 2
    /\ call.req.body.parts[1].filename = "a.txt"
    /\ call.req.body.parts[2].filename = "b.txt"

\* ------------------------------------------------------------- merged queries

\* The value the simple query map holds for key k, if any.
SimpleValuesOf(k) ==
    IF QueryCalls(k) = {} THEN <<>> ELSE <<ops[LastQueryCall(k)].arg[2]>>

\* C23: the resolved query string holds, for every key, the values of the base
\* URL's own query string, then the value of the simple query map, then the
\* values of each structured query value in the order of the QueryStruct
\* calls: every one of them is added, none replaces an earlier one.
C23_QueryMergeIsAdditive ==
    Resolved
        => \A k \in Keys :
              ValuesOf(call.req.rawQuery, k)
                  = ValuesOf(UrlParse(call.req.url).rawQuery, k)
                    \o SimpleValuesOf(k)
                    \o StructValuesOf(1, k)

C23_Witness ==
    /\ Resolved
    /\ call.req.url = UrlQuery
    /\ Len(ops) = 3
    /\ ops[1] = [c |-> "c", op |-> "QueryStruct", arg |-> QsOne]
    /\ ops[2] = [c |-> "c", op |-> "Query", arg |-> <<"k1", "v1">>]
    /\ ops[3] = [c |-> "c", op |-> "QueryStruct", arg |-> QsTwo]
    /\ call.req.rawQuery = << <<"k1", "v0">>, <<"k1", "v1">>, <<"k1", "s1">>,
                               <<"k1", "s2">>, <<"k2", "s2">> >>

\* ------------------------------------------------------------- failed resolution

StructCalls == {i \in 1..Len(ops) : ops[i].op = "QueryStruct"}

\* The call in flight was made with a proxy text that does not parse, or, with
\* a URL and a method that http.NewRequest accepts, with a structured query
\* value that cannot be encoded.
FailsToResolve ==
    /\ pc # "idle"
    /\ \/ cl[call.c].proxy = ProxyBad
       \/ /\ ~Malformed
          /\ \E i \in 1..Len(cl[call.c].queryStructs) :
                cl[call.c].queryStructs[i] = QsBad

\* C24: a terminal call whose resolution fails on a malformed proxy URL or on
\* a structured query value that cannot be encoded returns an error and no
\* response without a single transmission attempt; QueryStruct itself does not
\* fail: every value passed to it is registered, the unencodable ones too.
C24_ResolutionFailureSendsNothing ==
    /\ FailsToResolve => /\ pc = "done"
                         /\ ret.err \in {"proxy", "querystruct"}
                         /\ ret.resp = NoResp
                         /\ Len(log) = 0
    /\ \A c \in Clients : Len(cl[c].queryStructs) = Cardinality(StructCalls)

C24_Witness ==
    /\ pc = "done"
    /\ call.url = UrlQuery
    /\ Len(ops) = 2
    /\ ops[1] = [c |-> "c", op |-> "QueryStruct", arg |-> QsOne]
    /\ ops[2] = [c |-> "c", op |-> "QueryStruct", arg |-> QsBad]
    /\ cl["c"].queryStructs = <<QsOne, QsBad>>
    /\ ret = [resp |-> NoResp, err |-> "querystruct"]
    /\ Len(log) = 0

\* ------------------------------------------------------------- encoding failures

\* The last configuration call before the terminal call in flight was a
\* JSONStruct or a Form given a value that cannot be encoded.
EncodingFailed ==
    /\ pc # "idle"
    /\ Len(ops) > 0
    /\ ops[Len(ops)].op \in {"JSONStruct", "Form"}
    /\ ops[Len(ops)].arg = Unencodable

\* C25 as stated: when JSONStruct or Form was given a value that cannot be
\* encoded, the terminal call fails at once: it returns an error and makes no
\* transmission attempt.
C25_Original ==
    EncodingFailed => /\ pc = "done"
                      /\ ret.err # Nil
                      /\ Len(log) = 0

\* ------------------------------------------------------------- repeated calls

\* The step is a terminal call made right after the previous one returned, on
\* the same builder and with the same arguments.
Repeats == pc = "done" /\ call'.c = call.c /\ call'.tried = 0 /\ log' = <<>>

\* C26 as stated, for what the two calls put on the wire: a terminal call
\* repeated on the same builder, with no configuration call in between,
\* resolves to the request the previous call resolved to, and carries body
\* bytes if the previous call did.
C26_Original ==
    [][Repeats =>
          /\ call'.req = call.req
          /\ (Len(log) > 0 /\ pc' = "sending") => (Carries(heap') = log[1].carried)]_vars

\* ------------------------------------------------------------- lists of clones

\* The step is a File, Cookie or QueryStruct call on the client d.
AppendsOn(d) ==
    /\ Len(ops') = Len(ops) + 1
    /\ ops'[Len(ops')].c = d
    /\ ops'[Len(ops')].op \in {"File", "Cookie", "QueryStruct"}

\* C27 as stated: a File, Cookie or QueryStruct call on one clone of a base
\* builder changes nothing in the files, cookies and structured query values
\* of another clone of that base.
C27_Original ==
    [][\A d, e \in CloneIds :
          (d # e /\ e \in DOMAIN cl /\ AppendsOn(d)) =>
              /\ cl'[e].files = cl[e].files
              /\ cl'[e].cookies = cl[e].cookies
              /\ cl'[e].queryStructs = cl[e].queryStructs]_vars

\* ------------------------------------------------------------- the transport

\* C28 as stated: the proxy and the TLS handshake timeout in effect on the
\* transport at every attempt of a call are the settings of the builder that
\* makes the call; a builder without a proxy does not send through one.
C28_Original ==
    \A i \in 1..Len(log) :
        /\ log[i].via.Proxy = cl[call.c].proxy
        /\ log[i].via.TLSHandshakeTimeout = cl[call.c].tlsHandshakeTimeout

\* ------------------------------------------------------------- retries and the body

\* C29 as stated: every attempt of a terminal call transmits the body the first
\* attempt transmitted: a retry has body bytes to send whenever the first
\* attempt had.
C29_Original ==
    \A i \in 1..Len(log) : log[i].carried = log[1].carried

\* ------------------------------------------------------------- termination

\* The most attempts a call with retry count n may make.
MostAttempts(n) == IF n > 1 THEN n ELSE 1

\* The call in flight has handed its request to the retry loop.
InLoop == pc = "sending" \/ (Returned /\ call.req.made /\ ret.err # "dumprequest")

\* C30: for every retry count, negative ones and zero included, and every
\* sequence of attempts that each return, a terminal call whose request reaches
\* the retry loop returns, and by then it has made at least one attempt and at
\* most max(1, n); it never makes more than that.
C30_LoopTerminatesWithinBound ==
    /\ [](InLoop => /\ Attempts <= MostAttempts(RetriesSet)
                    /\ (pc = "sending" => Attempts < MostAttempts(RetriesSet))
                    /\ (Returned => Attempts >= 1))
    /\ (pc = "sending" ~> Returned)

C30_Witness ==
    /\ Returned
    /\ RetriesSet = 0
    /\ Attempts = 1
    /\ Failed(1)
    /\ ret.err # Nil

====
